---- MODULE Spec2Model ----
(***************************************************************************)
(* The call pipeline of @ficazam/contract-api (createClient(...).call):    *)
(* endpoint lookup, key parsing, request validation, URL construction,     *)
(* auth header resolution, body serialisation, pre-request hooks, the      *)
(* transport dispatch, post-response hooks, body read, classification and  *)
(* response validation.                                                    *)
(*                                                                         *)
(* Strings that the code inspects or rewrites (keys, paths, URLs, tokens,  *)
(* response texts) are sequences of one-character strings.  A JavaScript   *)
(* value is a record [t, s, f]: t its kind, s its string form, f its       *)
(* entries (object properties or array items).                             *)
(***************************************************************************)
EXTENDS Naturals, Sequences, FiniteSets, TLC

\* -------------------------------------------------------------------------
\* Characters and strings
\* -------------------------------------------------------------------------

Lower == {"a","b","c","d","e","f","g","h","i","j","k","l","m",
          "n","o","p","q","r","s","t","u","v","w","x","y","z"}

Upper == {"A","B","C","D","E","F","G","H","I","J","K","L","M",
          "N","O","P","Q","R","S","T","U","V","W","X","Y","Z"}

Digits == {"0","1","2","3","4","5","6","7","8","9"}

\* The character class [A-Za-z0-9_] of buildPath's regular expression.
NameChars == Lower \cup Upper \cup Digits \cup {"_"}

\* String.prototype.toUpperCase, one character.
UpperChar(c) ==
  CASE c = "a" -> "A" [] c = "b" -> "B" [] c = "c" -> "C" [] c = "d" -> "D"
    [] c = "e" -> "E" [] c = "f" -> "F" [] c = "g" -> "G" [] c = "h" -> "H"
    [] c = "i" -> "I" [] c = "j" -> "J" [] c = "k" -> "K" [] c = "l" -> "L"
    [] c = "m" -> "M" [] c = "n" -> "N" [] c = "o" -> "O" [] c = "p" -> "P"
    [] c = "q" -> "Q" [] c = "r" -> "R" [] c = "s" -> "S" [] c = "t" -> "T"
    [] c = "u" -> "U" [] c = "v" -> "V" [] c = "w" -> "W" [] c = "x" -> "X"
    [] c = "y" -> "Y" [] c = "z" -> "Z" [] OTHER -> c

ToUpperCase(s) == [i \in 1..Len(s) |-> UpperChar(s[i])]

\* String.prototype.slice(from, to) with 0-based from, exclusive to.
Slice(s, from, to) == SubSeq(s, from + 1, to)

\* The 1-based position of the first ch of s at or after i, 0 when there is
\* none (String.prototype.indexOf gives that position minus one).
RECURSIVE FirstAt(_, _, _)
FirstAt(s, ch, i) ==
  IF i > Len(s) THEN 0
  ELSE IF s[i] = ch THEN i
  ELSE FirstAt(s, ch, i + 1)

\* 1-based position of the first space of s, 0 when there is none.
IndexOfSpace(s) == FirstAt(s, " ", 1)

RECURSIVE TrimStart(_)
TrimStart(s) ==
  IF s # <<>> /\ Head(s) = " " THEN TrimStart(Tail(s)) ELSE s

RECURSIVE TrimEnd(_)
TrimEnd(s) ==
  IF s # <<>> /\ s[Len(s)] = " " THEN TrimEnd(SubSeq(s, 1, Len(s) - 1)) ELSE s

\* String.prototype.trim.
Trim(s) == TrimEnd(TrimStart(s))

StartsWith(s, ch) == s # <<>> /\ Head(s) = ch

EndsWith(s, ch) == s # <<>> /\ s[Len(s)] = ch

\* Does the character sequence s contain c?
Contains(s, c) == \E i \in 1..Len(s) : s[i] = c

\* -------------------------------------------------------------------------
\* JavaScript values
\* -------------------------------------------------------------------------

JsVal(t, s, f) == [t |-> t, s |-> s, f |-> f]

Undefined == JsVal("undefined", <<>>, <<>>)

Null == JsVal("null", <<>>, <<>>)

Str(s) == JsVal("string", s, <<>>)

Num(s) == JsVal("number", s, <<>>)

\* An object with the given own enumerable entries, each [n |-> name, v |-> value].
Obj(f) == JsVal("object", <<>>, f)

\* An array of the given items.
Arr(items) == JsVal("array", <<>>, [i \in 1..Len(items) |-> [n |-> <<>>, v |-> items[i]]])

\* A value the pipeline only passes along, named by a label.
Opaque(t, label) == JsVal(t, label, <<>>)

Entry(n, v) == [n |-> n, v |-> v]

\* JavaScript truthiness (the conditions `!base`, `token ? ..`, `paramsObj ? ..`).
Truthy(v) ==
  ~ \/ v.t \in {"undefined", "null"}
    \/ v.t = "string" /\ v.s = <<>>
    \/ v.t = "number" /\ v.s = <<"0">>
    \/ v.t = "boolean" /\ v.s = <<"f","a","l","s","e">>

RECURSIVE JoinItems(_)
JoinItems(f) ==
  IF f = <<>> THEN <<>>
  ELSE IF Len(f) = 1 THEN f[1].v.s
  ELSE f[1].v.s \o <<",">> \o JoinItems(Tail(f))

\* String(v).
ToStr(v) ==
  CASE v.t \in {"string", "number", "boolean"} -> v.s
    [] v.t = "null" -> <<"n","u","l","l">>
    [] v.t = "undefined" -> <<"u","n","d","e","f","i","n","e","d">>
    [] v.t = "array" -> JoinItems(v.f)
    [] OTHER -> <<"[","o","b","j","e","c","t"," ","O","b","j","e","c","t","]">>

\* obj[name]: the value of the own property, undefined when there is none.
RECURSIVE GetProp(_, _)
GetProp(f, name) ==
  IF f = <<>> THEN Undefined
  ELSE IF f[1].n = name THEN f[1].v
  ELSE GetProp(Tail(f), name)

\* -------------------------------------------------------------------------
\* src/https.ts: joinURL, buildPath, buildQueryString
\* -------------------------------------------------------------------------

\* The marks encodeURIComponent leaves as they are, besides letters and digits.
UriUnreserved == NameChars \cup {"-", ".", "!", "~", "*", "'", "(", ")"}

\* The characters URLSearchParams leaves as they are.
FormUnreserved == Lower \cup Upper \cup Digits \cup {"*", "-", ".", "_"}

\* The percent-encoding of one ASCII character.
PercentOf(c) ==
  CASE c = " " -> <<"%","2","0">> [] c = "/" -> <<"%","2","F">>
    [] c = ":" -> <<"%","3","A">> [] c = "?" -> <<"%","3","F">>
    [] c = "&" -> <<"%","2","6">> [] c = "=" -> <<"%","3","D">>
    [] c = "%" -> <<"%","2","5">> [] c = "+" -> <<"%","2","B">>
    [] c = "," -> <<"%","2","C">> [] c = "#" -> <<"%","2","3">>
    [] c = "{" -> <<"%","7","B">> [] c = "}" -> <<"%","7","D">>
    [] c = "[" -> <<"%","5","B">> [] c = "]" -> <<"%","5","D">>
    [] c = "!" -> <<"%","2","1">> [] c = "~" -> <<"%","7","E">>
    [] c = "'" -> <<"%","2","7">> [] c = "(" -> <<"%","2","8">>
    [] c = ")" -> <<"%","2","9">>
    [] OTHER -> <<"%", c>>

RECURSIVE encodeURIComponent(_)
encodeURIComponent(s) ==
  IF s = <<>> THEN <<>>
  ELSE (IF Head(s) \in UriUnreserved THEN <<Head(s)>> ELSE PercentOf(Head(s)))
       \o encodeURIComponent(Tail(s))

\* application/x-www-form-urlencoded serialisation of one name or value.
RECURSIVE formEncode(_)
formEncode(s) ==
  IF s = <<>> THEN <<>>
  ELSE (IF Head(s) \in FormUnreserved THEN <<Head(s)>>
        ELSE IF Head(s) = " " THEN <<"+">>
        ELSE PercentOf(Head(s)))
       \o formEncode(Tail(s))

joinURL(base, path) ==
  IF base = <<>> THEN path
  ELSE LET a == IF EndsWith(base, "/") THEN SubSeq(base, 1, Len(base) - 1) ELSE base
           b == IF StartsWith(path, "/") THEN path ELSE <<"/">> \o path
       IN  a \o b

\* The end (1-based, inclusive) of the longest run of name characters that
\* starts at position i of t; i - 1 when t[i] is no name character.
RECURSIVE NameEnd(_, _)
NameEnd(t, i) ==
  IF i <= Len(t) /\ t[i] \in NameChars THEN NameEnd(t, i + 1) ELSE i - 1

\* template.replace(/:([A-Za-z0-9_]+)/g, ...) from position i on.  The result
\* is [ok, path]: ok is FALSE when the replacer threw `Missing path param`.
RECURSIVE buildPathFrom(_, _, _)
buildPathFrom(template, params, i) ==
  IF i > Len(template) THEN [ok |-> TRUE, path |-> <<>>]
  ELSE IF template[i] = ":" /\ NameEnd(template, i + 1) >= i + 1
  THEN LET j == NameEnd(template, i + 1)
           key == SubSeq(template, i + 1, j)
           v == GetProp(params.f, key)
       IN  IF v.t \in {"undefined", "null"}
           THEN [ok |-> FALSE, path |-> key]
           ELSE LET rest == buildPathFrom(template, params, j + 1)
                IN  IF rest.ok
                    THEN [ok |-> TRUE, path |-> encodeURIComponent(ToStr(v)) \o rest.path]
                    ELSE rest
  ELSE LET rest == buildPathFrom(template, params, i + 1)
       IN  IF rest.ok
           THEN [ok |-> TRUE, path |-> <<template[i]>> \o rest.path]
           ELSE rest

buildPath(template, params) == buildPathFrom(template, params, 1)

\* sp.append(k, String(item)) for every item of an array value.
RECURSIVE appendItems(_, _)
appendItems(k, items) ==
  IF items = <<>> THEN <<>>
  ELSE <<[n |-> k, v |-> ToStr(items[1].v)]>> \o appendItems(k, Tail(items))

\* sp.set(k, v): the first pair named k takes the value, later ones are
\* dropped; a new pair is appended when there is none.
spSet(sp, k, v) ==
  IF \E i \in 1..Len(sp) : sp[i].n = k
  THEN LET first == CHOOSE i \in 1..Len(sp) :
                      sp[i].n = k /\ \A j \in 1..(i - 1) : sp[j].n # k
       IN  SelectSeq([i \in 1..Len(sp) |->
                        IF i = first THEN [n |-> k, v |-> v, keep |-> TRUE]
                        ELSE [n |-> sp[i].n, v |-> sp[i].v, keep |-> sp[i].n # k]],
                     LAMBDA e : e.keep)
  ELSE Append(sp, [n |-> k, v |-> v])

\* A loop over Object.entries(query) that sets every item of an array under
\* its key instead of appending it.
RECURSIVE queryPairsSetting(_, _)
queryPairsSetting(f, sp) ==
  IF f = <<>> THEN sp
  ELSE LET k == f[1].n
           v == f[1].v
           items == appendItems(k, v.f)
       IN  IF v.t \in {"undefined", "null"} THEN queryPairsSetting(Tail(f), sp)
           ELSE IF v.t = "array"
           THEN queryPairsSetting(Tail(f),
                                  IF items = <<>> THEN sp
                                  ELSE spSet(sp, k, items[Len(items)].v))
           ELSE queryPairsSetting(Tail(f), spSet(sp, k, ToStr(v)))

\* The loop over Object.entries(query), from the entries f on, into sp.
RECURSIVE queryPairs(_, _)
queryPairs(f, sp) ==
  IF f = <<>> THEN sp
  ELSE LET k == f[1].n
           v == f[1].v
       IN  IF v.t \in {"undefined", "null"} THEN queryPairs(Tail(f), sp)
           ELSE IF v.t = "array" THEN queryPairs(Tail(f), sp \o appendItems(k, v.f))
           ELSE queryPairs(Tail(f), spSet(sp, k, ToStr(v)))

\* URLSearchParams.prototype.toString.
RECURSIVE spToString(_)
spToString(sp) ==
  IF sp = <<>> THEN <<>>
  ELSE formEncode(sp[1].n) \o <<"=">> \o formEncode(sp[1].v)
       \o (IF Len(sp) > 1 THEN <<"&">> \o spToString(Tail(sp)) ELSE <<>>)

buildQueryString(query) ==
  LET s == spToString(queryPairs(query.f, <<>>))
  IN  IF s # <<>> THEN <<"?">> \o s ELSE <<>>

\* -------------------------------------------------------------------------
\* Schemas (src/types.ts RuntimeSchema): parse returns a value or throws
\* -------------------------------------------------------------------------

NoSchema == ""

NameId == <<"i","d">>

NameQ == <<"q">>

NameTag == <<"t","a","g">>

NameN == <<"n">>

\* What a failing parse throws: it names the validator and the rejected input.
Issues(schema, input) == [t |-> "issues", by |-> schema, of |-> input]

\* The entries of f whose names are in keep, in order (a schema that strips
\* the keys it does not know).
RECURSIVE Strip(_, _)
Strip(f, keep) ==
  IF f = <<>> THEN <<>>
  ELSE (IF f[1].n \in keep THEN <<f[1]>> ELSE <<>>) \o Strip(Tail(f), keep)

AllStrings(f) == \A i \in 1..Len(f) : f[i].v.t = "string"

\* Does the schema accept the input?
Accepts(schema, input) ==
  CASE schema = "IdParams" ->
         input.t = "object" /\ GetProp(input.f, NameId).t = "string"
    [] schema = "LooseParams" ->
         input.t = "object" /\ GetProp(input.f, NameId).t \in {"string", "undefined"}
    [] schema = "Query" ->
         /\ input.t = "object"
         /\ GetProp(input.f, NameQ).t = "string"
         /\ GetProp(input.f, NameTag).t \in {"array", "undefined"}
    [] schema = "Body" ->
         input.t = "object" /\ GetProp(input.f, NameN).t = "string"
    [] schema = "Headers" ->
         input.t = "object" /\ AllStrings(input.f)
    [] schema = "Item" -> input.t = "json" /\ input.s = <<"{","a","}">>
    [] schema = "ErrMsg" -> input.t = "json" /\ input.s = <<"{","e","}">>
    [] schema = "Text" -> input.t = "string"
    [] schema = "OptText" -> input.t \in {"string", "undefined"}
    [] schema = "AnyQuery" -> input.t = "object"
    [] OTHER -> FALSE

\* The value an accepting schema returns: object schemas strip unknown keys,
\* the response and error schemas return their typed value.
Parsed(schema, input) ==
  CASE schema \in {"IdParams", "LooseParams"} -> Obj(Strip(input.f, {NameId}))
    [] schema = "Query" -> Obj(Strip(input.f, {NameQ, NameTag}))
    [] schema = "Body" -> Obj(Strip(input.f, {NameN}))
    [] schema \in {"Item", "ErrMsg"} -> JsVal(schema, input.s, <<>>)
    [] OTHER -> input

\* tryToParse with a catch block that gives the input back instead of the
\* issues.
tryToParseSwallowing(schema, input) ==
  [ok |-> TRUE,
   value |-> IF Accepts(schema, input) THEN Parsed(schema, input) ELSE input,
   issues |-> Undefined]

tryToParse(schema, input) ==
  IF Accepts(schema, input)
  THEN [ok |-> TRUE, value |-> Parsed(schema, input), issues |-> Undefined]
  ELSE [ok |-> FALSE, value |-> Undefined, issues |-> Issues(schema, input)]

\* The texts the JSON decoder accepts (JSON.parse skips surrounding blanks).
ValidJson == { <<"{","a","}">>, <<"{","e","}">>, <<"[","]">>, <<"1">> }

\* decodeJson(text): [ok, value]; ok is FALSE when the decoder throws.
decodeJson(text) ==
  IF Trim(text) \in ValidJson
  THEN [ok |-> TRUE, value |-> JsVal("json", Trim(text), <<>>)]
  ELSE [ok |-> FALSE, value |-> Undefined]

safeJSON(text) ==
  IF decodeJson(text).ok THEN decodeJson(text).value ELSE Undefined

\* encodeJson(v): the encoder's output for v.
encodeJson(v) == [t |-> "encoded", s |-> <<>>, f |-> <<>>, of |-> v]

\* -------------------------------------------------------------------------
\* The contract and the client options
\* -------------------------------------------------------------------------

EndpointDef(auth, params, query, body, headers, response, error, contentType) ==
  [auth |-> auth, params |-> params, query |-> query, body |-> body,
   headers |-> headers, response |-> response, error |-> error,
   contentType |-> contentType]

KeyItem == <<"g","e","t"," ","/","i","/",":","i","d">>

KeyPost == <<"p","o","s","t"," ","/","i">>

KeyList == <<"g","e","t"," ","/","i">>

KeyPut == <<"p","u","t"," ","/","i","/",":","i","d">>

KeyRaw == <<"g","e","t"," ","/","r","/",":","i","d">>

\* A contract key with no space between method and path.
KeyPing == <<"p","i","n","g">>

\* A key the contract does not hold.
KeyNone == <<"g","e","t"," ","/","z">>

\* A key the contract does not hold and that has no space either.
KeyJunk == <<"z">>

Contract ==
  (KeyItem :> EndpointDef("public", "IdParams", NoSchema, NoSchema, NoSchema,
                          "Item", NoSchema, ""))
  @@ (KeyPost :> EndpointDef("required", NoSchema, NoSchema, "Body", NoSchema,
                             "Item", "ErrMsg", ""))
  @@ (KeyList :> EndpointDef("public", NoSchema, "Query", NoSchema, NoSchema,
                             "Item", NoSchema, ""))
  @@ (KeyPut :> EndpointDef("required", "LooseParams", "Query", "Body", "Headers",
                            "Item", "ErrMsg", ""))
  @@ (KeyRaw :> EndpointDef("public", NoSchema, NoSchema, NoSchema, NoSchema,
                            "Text", NoSchema, ""))
  @@ (KeyPing :> EndpointDef("public", NoSchema, "Query", NoSchema, NoSchema,
                             "Text", NoSchema, ""))

KeyText == <<"p","o","s","t"," ","/","t">>

KeyQuiet == <<"p","o","s","t"," ","/","n">>

KeyJson == <<"p","o","s","t"," ","/","j">>

\* The contract with three endpoints that declare their content type: text
\* and json with a body that may be left out, none with a body validator.
BodyContract ==
  (KeyText :> EndpointDef("public", NoSchema, NoSchema, "OptText", "Headers",
                          "Item", NoSchema, "text"))
  @@ (KeyQuiet :> EndpointDef("public", NoSchema, NoSchema, "Body", "Headers",
                              "Item", NoSchema, "none"))
  @@ (KeyJson :> EndpointDef("required", NoSchema, NoSchema, "OptText", "Headers",
                             "Item", NoSchema, "json"))
  @@ Contract

KeyFind == <<"g","e","t"," ","/","f">>

\* The contract with an endpoint whose query validator takes any flat object
\* as it is.
QueryContract ==
  (KeyFind :> EndpointDef("required", NoSchema, "AnyQuery", NoSchema, NoSchema,
                          "Item", NoSchema, ""))
  @@ Contract

\* The largest number of entries of a query object.
MaxEntries == 2

\* The longest chain of hooks on either side of the dispatch, where the
\* hooks' order is what is looked at.
MaxChain == 2

\* The largest number of hooks registered on either side of the dispatch.
MaxHooks == 1

BaseUrl(kind, s) == [kind |-> kind, s |-> s]

ClientOptions(baseUrl, auth, nBefore, nAfter) ==
  [baseUrl |-> baseUrl, auth |-> auth, nBefore |-> nBefore, nAfter |-> nAfter]

\* -------------------------------------------------------------------------
\* State
\* -------------------------------------------------------------------------

\* The calls that may be in flight on the one client.
Calls == {"c1", "c2"}

VARIABLES
  contract,   \* the contract handed to createClient
  options,    \* the ClientOptions handed to createClient
  pc,         \* per call: where the async function `call` is suspended
  key,        \* per call: its first argument
  args,       \* per call: its second argument
  frame,      \* per invocation: the local variables of `call`
  outcome,    \* per call: how its promise settled
  sent,       \* per call: the (url, init) pairs handed to the transport
  log,        \* per call: the collaborators it invoked, in order
  answers,    \* per call: what the collaborators answered, in order
  io          \* the last direct call of an exported helper: [fn, in, out]

vars == <<contract, options, pc, key, args, frame, outcome, sent, log, answers, io>>

\* -------------------------------------------------------------------------
\* Requests, responses, errors
\* -------------------------------------------------------------------------

EmptyMap == [n \in {} |-> <<>>]

\* Object.assign(h, x) / {...h, ...x}.
Assign(h, x) ==
  [n \in DOMAIN h \cup DOMAIN x |-> IF n \in DOMAIN x THEN x[n] ELSE h[n]]

\* {...(headersObj ?? {})}: the own entries of the validated headers.
SpreadHeaders(obj) ==
  IF obj.t = "object"
  THEN [n \in {obj.f[i].n : i \in 1..Len(obj.f)} |-> GetProp(obj.f, n).s]
  ELSE EmptyMap

\* A RequestInit: the four fields the pipeline computes, and the
\* transport-native ones (`native`, "" when there are none).
RequestInit(method, headers, body, signal, native) ==
  [method |-> method, headers |-> headers, body |-> body, signal |-> signal,
   native |-> native]

\* args.init: `has` names the fields it carries; undefined carries none.
ArgsInit(has, method, headers, body, signal, native) ==
  [has |-> has, method |-> method, headers |-> headers, body |-> body,
   signal |-> signal, native |-> native]

NoInit == ArgsInit({}, <<>>, EmptyMap, Undefined, "", "")

\* { method, headers: h, body, signal, ...args.init }
SpreadInit(computed, ai) ==
  [fld \in DOMAIN computed |-> IF fld \in ai.has THEN ai[fld] ELSE computed[fld]]

Response(status, ctype, text) == [status |-> status, ctype |-> ctype, text |-> text]

NoResponse == Response(0, "", <<>>)

\* Response.ok.
IsOk(r) == r.status \in 200..299

\* response.headers.get("content-type")?.includes("application/json")
IncludesJson(ctype) ==
  ctype \in {"application/json", "application/json; charset=utf-8"}

Pending == [name |-> "pending"]

Returned(v) == [name |-> "return", value |-> v]

\* new Error(message): the library's own plain errors.
PlainError(message) == [name |-> "Error", message |-> message]

\* An exception of a collaborator (a hook, the transport), propagated as is.
Thrown(e) == [name |-> "thrown", error |-> e]

ValidationError(message, k, url, kind, issues) ==
  [name |-> "ValidationError", message |-> message, key |-> k, url |-> url,
   kind |-> kind, issues |-> issues]

\* The constructor copies rawText, rawJson and parsedError when they are not
\* undefined; an absent field reads as undefined.
ApiError(status, k, url, rawText, rawJson, parsedError) ==
  [name |-> "ApiError", message |-> "API request failed", status |-> status,
   key |-> k, url |-> url, rawText |-> rawText, rawJson |-> rawJson,
   parsedError |-> parsedError]

Ev(e, i) == [e |-> e, i |-> i]

\* What a collaborator answered: a token, a header map, a replacement
\* descriptor or response, an exception, or nothing.
NoAnswer == [k |-> "nothing"]

TokenAnswer(s) == [k |-> "token", s |-> s]

HeadersAnswer(m) == [k |-> "headers", m |-> m]

InitAnswer(d) == [k |-> "init", d |-> d]

ResponseAnswer(r) == [k |-> "response", r |-> r]

\* An afterResponse hook's replacement response.
ReplaceAnswer(r) == [k |-> "replace", r |-> r]

ThrowAnswer(e) == [k |-> "throw", e |-> e]

\* -------------------------------------------------------------------------
\* src/https.ts (client part): the helpers of createClient
\* -------------------------------------------------------------------------

\* parseKey that takes a key with no space for a method with an empty path.
parseKeyLenient(k) ==
  LET index == IndexOfSpace(k)
  IN  IF index = 0
      THEN [ok |-> TRUE, method |-> ToUpperCase(Trim(k)), path |-> <<>>]
      ELSE [ok |-> TRUE,
            method |-> ToUpperCase(Trim(Slice(k, 0, index - 1))),
            path |-> Trim(Slice(k, index, Len(k)))]

parseKey(k) ==
  LET index == IndexOfSpace(k)
  IN  IF index = 0
      THEN [ok |-> FALSE, method |-> <<>>, path |-> <<>>]
      ELSE [ok |-> TRUE,
            method |-> ToUpperCase(Trim(Slice(k, 0, index - 1))),
            path |-> Trim(Slice(k, index, Len(k)))]

getEndpoint(c, k) ==
  IF k \in DOMAIN c
  THEN [ok |-> TRUE, def |-> c[k]]
  ELSE [ok |-> FALSE, def |-> EndpointDef("", "", "", "", "", "", "", "")]

\* resolveBaseUrl: the string, or what the resolver function returns.
resolveBaseUrl(base) ==
  IF base.kind = "none" \/ (base.kind = "string" /\ base.s = <<>>)
  THEN <<>>
  ELSE base.s

Bearer == <<"B","e","a","r","e","r"," ">>

\* The header map of a bearer token: empty for a falsy token.
BearerHeaders(token) ==
  IF token # <<>> THEN ("Authorization" :> (Bearer \o token)) ELSE EmptyMap

\* resolveAuthHeaders that sends the bare token, without the "Bearer " scheme.
resolveAuthHeadersBare(strategy, a) ==
  CASE strategy = "bearer" /\ a.s # <<>> -> ("Authorization" :> a.s)
    [] strategy = "headers" /\ a.k = "headers" -> a.m
    [] OTHER -> EmptyMap

\* resolveAuthHeaders(strategy), given what the strategy's supplier answered.
resolveAuthHeaders(strategy, a) ==
  CASE strategy = "cookie" -> EmptyMap
    [] strategy = "bearer" -> BearerHeaders(a.s)
    [] strategy = "headers" -> IF a.k = "headers" THEN a.m ELSE EmptyMap
    [] OTHER -> EmptyMap

\* resolveOverrideAuthHeaders(override), given what its supplier answered.
resolveOverrideAuthHeaders(override, a) ==
  CASE override.kind = "cookie" -> EmptyMap
    [] override.kind = "bearer" ->
         BearerHeaders(IF override.fn THEN a.s ELSE override.token)
    [] override.kind = "headers" -> IF a.k = "headers" THEN a.m ELSE EmptyMap
    [] OTHER -> EmptyMap

\* An override test that falls back to the client default for an override
\* that yields no headers.
IsOverrideWithHeaders(authField) ==
  authField.kind \notin {"undefined", "true", "cookie"}

\* `authField && authField !== true`
IsOverride(authField) == authField.kind \notin {"undefined", "true"}

\* The supplier that auth resolution invokes, if any.
AuthSupplier(authField) ==
  IF IsOverride(authField)
  THEN CASE authField.kind = "bearer" /\ authField.fn -> <<Ev("override.token", 0)>>
         [] authField.kind = "headers" -> <<Ev("override.getHeaders", 0)>>
         [] OTHER -> <<>>
  ELSE CASE options.auth = "bearer" -> <<Ev("token", 0)>>
         [] options.auth = "headers" -> <<Ev("getHeaders", 0)>>
         [] OTHER -> <<>>

\* -------------------------------------------------------------------------
\* createClient(...).call, cut at its awaits.  Each piece takes the locals L
\* of the invocation and gives [L, pc, out, sent, ev]: the locals after it,
\* where the call is suspended next, how it settled (Pending while it has
\* not), the dispatches it made and the collaborators it invoked.
\* -------------------------------------------------------------------------

NoLocals ==
  [method |-> <<>>, pathTemplate |-> <<>>, baseUrl |-> <<>>,
   paramsObj |-> Undefined, queryObj |-> Undefined, bodyObj |-> Undefined,
   headersObj |-> Undefined, url |-> <<>>, h |-> EmptyMap,
   init |-> RequestInit(<<>>, EmptyMap, Undefined, "", ""),
   i |-> 0, response |-> NoResponse]

StepResult(L, p, out, s, ev) == [L |-> L, pc |-> p, out |-> out, sent |-> s, ev |-> ev]

\* The validators taken last to first.
FieldsReversed == <<"headers", "body", "query", "params">>

Fields == <<"params", "query", "body", "headers">>

InvalidMessage(fld) ==
  CASE fld = "params" -> "Invalid path params"
    [] fld = "query" -> "Invalid query"
    [] fld = "body" -> "Invalid body"
    [] OTHER -> "Invalid headers"

\* The four `if (def.<field>)` blocks from field number n on: [ok, L, issues,
\* field, ev], ok FALSE at the first field whose validator throws.
RECURSIVE validateInputs(_, _, _, _)
validateInputs(def, a, L, n) ==
  IF n > Len(Fields)
  THEN [ok |-> TRUE, L |-> L, issues |-> Undefined, field |-> "", ev |-> <<>>]
  ELSE LET fld == Fields[n]
       IN  IF def[fld] = NoSchema
           THEN validateInputs(def, a, L, n + 1)
           ELSE LET r == tryToParse(def[fld], a[fld])
                    here == <<Ev("parse:" \o fld, 0)>>
                IN  IF ~r.ok
                    THEN [ok |-> FALSE, L |-> L, issues |-> r.issues,
                          field |-> fld, ev |-> here]
                    ELSE LET L2 == CASE fld = "params" -> [L EXCEPT !.paramsObj = r.value]
                                     [] fld = "query" -> [L EXCEPT !.queryObj = r.value]
                                     [] fld = "body" -> [L EXCEPT !.bodyObj = r.value]
                                     [] OTHER -> [L EXCEPT !.headersObj = r.value]
                             rest == validateInputs(def, a, L2, n + 1)
                         IN  [rest EXCEPT !.ev = here \o @]

\* `let response = await fetcher(url, init)`: the call of the transport.
Dispatch(L, ev) ==
  StepResult(L, "fetch", Pending, <<[url |-> L.url, init |-> L.init]>>,
             ev \o <<Ev("fetch", 0)>>)

\* The beforeRequest loop from hook number n on, up to its next await.
RunBefore(L, n, ev) ==
  IF n <= options.nBefore
  THEN StepResult([L EXCEPT !.i = n], "before", Pending, <<>>,
                  ev \o <<Ev("before", n)>>)
  ELSE Dispatch(L, ev)

\* `const text = await response.text()`: the call of the body read.
ReadText(L, ev) ==
  StepResult(L, "text", Pending, <<>>, ev \o <<Ev("text", 0)>>)

\* The afterResponse loop from hook number n on, up to its next await.
RunAfter(L, n, ev) ==
  IF n <= options.nAfter
  THEN StepResult([L EXCEPT !.i = n], "after", Pending, <<>>,
                  ev \o <<Ev("after", n)>>)
  ELSE ReadText(L, ev)

AppJson == <<"a","p","p","l","i","c","a","t","i","o","n","/","j","s","o","n">>

TextPlain == <<"t","e","x","t","/","p","l","a","i","n">>

\* h["Content-Type"] = h["Content-Type"] ?? dflt
DefaultContentType(h, dflt) ==
  IF "Content-Type" \in DOMAIN h THEN h ELSE Assign(h, "Content-Type" :> dflt)

\* From Object.assign(h, <auth headers>) to the first await after it: body
\* serialisation, the RequestInit, and the start of the beforeRequest loop.
Prepare(L, def, a, authHeaders, ev) ==
  LET h1 == Assign(L.h, authHeaders)
      contentType == IF def.contentType # "" THEN def.contentType
                     ELSE IF def.body # NoSchema THEN "json" ELSE "none"
      hasBody == L.bodyObj.t # "undefined"
      h2 == CASE contentType = "json" /\ hasBody -> DefaultContentType(h1, AppJson)
              [] contentType = "text" /\ hasBody -> DefaultContentType(h1, TextPlain)
              [] OTHER -> h1
      body == CASE contentType = "json" /\ hasBody -> encodeJson(L.bodyObj)
                [] contentType = "text" /\ hasBody -> Str(ToStr(L.bodyObj))
                [] OTHER -> Undefined
      ev2 == IF contentType = "json" /\ hasBody
             THEN ev \o <<Ev("encodeJson", 0)>> ELSE ev
      init == SpreadInit(RequestInit(L.method, h2, body, a.signal, ""), a.init)
  IN  RunBefore([L EXCEPT !.h = h2, !.init = init], 1, ev2)

\* The synchronous head of call: getEndpoint, parseKey, and the call of
\* resolveBaseUrl that the first await waits for.
DoCall(L, k, a) ==
  IF ~getEndpoint(contract, k).ok
  THEN StepResult(L, "done", PlainError("Unknown endpoint key"), <<>>, <<>>)
  ELSE IF ~parseKey(k).ok
  THEN StepResult(L, "done", PlainError("Invalid Endpoint key"), <<>>, <<>>)
  ELSE StepResult([L EXCEPT !.method = parseKey(k).method,
                            !.pathTemplate = parseKey(k).path],
                  "baseUrl", Pending, <<>>,
                  IF options.baseUrl.kind = "function"
                  THEN <<Ev("baseUrl", 0)>> ELSE <<>>)

\* A pipeline that resolves a per-call override whatever the endpoint's auth
\* mode is.
DoAfterBaseUrlEager(L, k, a) ==
  LET def == getEndpoint(contract, k).def
      baseUrl == resolveBaseUrl(options.baseUrl)
      v == validateInputs(def, a, [L EXCEPT !.baseUrl = baseUrl], 1)
      V == v.L
      built == IF Truthy(V.paramsObj)
               THEN buildPath(V.pathTemplate, V.paramsObj)
               ELSE [ok |-> TRUE, path |-> V.pathTemplate]
      qs == IF Truthy(V.queryObj) THEN buildQueryString(V.queryObj) ELSE <<>>
      U == [V EXCEPT !.url = joinURL(baseUrl, built.path \o qs),
                     !.h = SpreadHeaders(V.headersObj)]
  IN  IF ~v.ok
      THEN StepResult(V, "done",
                      ValidationError(InvalidMessage(v.field), k,
                                      baseUrl \o V.pathTemplate, "request", v.issues),
                      <<>>, v.ev)
      ELSE IF ~built.ok
      THEN StepResult(V, "done", PlainError("Missing path param"), <<>>, v.ev)
      ELSE IF def.auth = "required" \/ IsOverride(a.auth)
      THEN StepResult(U, "auth", Pending, <<>>, v.ev \o AuthSupplier(a.auth))
      ELSE Prepare(U, def, a, EmptyMap, v.ev)

\* From the base URL's arrival to the next await: input validation, the URL,
\* the headers, and either the call of the auth resolver or, for a public
\* endpoint, everything up to the first hook or the dispatch.
DoAfterBaseUrl(L, k, a) ==
  LET def == getEndpoint(contract, k).def
      baseUrl == resolveBaseUrl(options.baseUrl)
      v == validateInputs(def, a, [L EXCEPT !.baseUrl = baseUrl], 1)
      V == v.L
      built == IF Truthy(V.paramsObj)
               THEN buildPath(V.pathTemplate, V.paramsObj)
               ELSE [ok |-> TRUE, path |-> V.pathTemplate]
      qs == IF Truthy(V.queryObj) THEN buildQueryString(V.queryObj) ELSE <<>>
      U == [V EXCEPT !.url = joinURL(baseUrl, built.path \o qs),
                     !.h = SpreadHeaders(V.headersObj)]
  IN  IF ~v.ok
      THEN StepResult(V, "done",
                      ValidationError(InvalidMessage(v.field), k,
                                      baseUrl \o V.pathTemplate, "request", v.issues),
                      <<>>, v.ev)
      ELSE IF ~built.ok
      THEN StepResult(V, "done", PlainError("Missing path param"), <<>>, v.ev)
      ELSE IF def.auth = "required"
      THEN StepResult(U, "auth", Pending, <<>>, v.ev \o AuthSupplier(a.auth))
      ELSE Prepare(U, def, a, EmptyMap, v.ev)

\* From the auth headers' arrival to the next await.
DoAfterAuth(L, k, a, ans) ==
  LET def == getEndpoint(contract, k).def
      authHeaders == IF IsOverride(a.auth)
                     THEN resolveOverrideAuthHeaders(a.auth, ans)
                     ELSE resolveAuthHeaders(options.auth, ans)
  IN  Prepare(L, def, a, authHeaders, <<>>)

\* A beforeRequest loop that goes on with the descriptor it had, whatever
\* the hook returned.
DoAfterBeforeKeeping(L, ans) ==
  CASE ans.k = "throw" -> StepResult(L, "done", Thrown(ans.e), <<>>, <<>>)
    [] OTHER -> RunBefore(L, L.i + 1, <<>>)

\* From the return of beforeRequest hook L.i to the next await.
DoAfterBefore(L, ans) ==
  CASE ans.k = "throw" -> StepResult(L, "done", Thrown(ans.e), <<>>, <<>>)
    [] ans.k = "init" -> RunBefore([L EXCEPT !.init = ans.d], L.i + 1, <<>>)
    [] OTHER -> RunBefore(L, L.i + 1, <<>>)

\* A dispatch that catches the transport's exception and reports it as an
\* ApiError of status 0.
DoAfterFetchWrapping(L, ans) ==
  CASE ans.k = "throw" ->
         StepResult(L, "done",
                    ApiError(0, <<>>, L.url, Undefined, Undefined, Undefined),
                    <<>>, <<>>)
    [] OTHER -> RunAfter([L EXCEPT !.response = ans.r], 1, <<>>)

\* From the transport's answer to the next await.
DoAfterFetch(L, ans) ==
  CASE ans.k = "throw" -> StepResult(L, "done", Thrown(ans.e), <<>>, <<>>)
    [] OTHER -> RunAfter([L EXCEPT !.response = ans.r], 1, <<>>)

\* An afterResponse loop that goes on with the transport's response, whatever
\* the hook returned.
DoAfterAfterKeeping(L, ans) ==
  CASE ans.k = "throw" -> StepResult(L, "done", Thrown(ans.e), <<>>, <<>>)
    [] OTHER -> RunAfter(L, L.i + 1, <<>>)

\* From the return of afterResponse hook L.i to the next await.
DoAfterAfter(L, ans) ==
  CASE ans.k = "throw" -> StepResult(L, "done", Thrown(ans.e), <<>>, <<>>)
    [] ans.k = "replace" -> RunAfter([L EXCEPT !.response = ans.r], L.i + 1, <<>>)
    [] OTHER -> RunAfter(L, L.i + 1, <<>>)

\* A classification that goes by the content type header alone.
isLikelyJsonByHeader(r) == r.text # <<>> /\ IncludesJson(r.ctype)

\* isLikelyJson and rawJson for the response whose body text was read.
isLikelyJson(r) ==
  /\ r.text # <<>>
  /\ \/ IncludesJson(r.ctype)
     \/ StartsWith(Trim(r.text), "{")
     \/ StartsWith(Trim(r.text), "[")

rawJsonOf(r) == IF isLikelyJson(r) THEN safeJSON(r.text) ELSE Undefined

\* A non-2xx branch that attaches the raw body only for an endpoint with an
\* error schema.
nonOkBranchSchemaOnly(L, k, def, rawJson) ==
  LET text == L.response.text
      tryError == def.error # NoSchema /\ rawJson.t # "undefined"
      parsedError == IF tryError /\ tryToParse(def.error, rawJson).ok
                     THEN tryToParse(def.error, rawJson).value
                     ELSE Undefined
  IN  StepResult(L, "done",
                 ApiError(L.response.status, k, L.url,
                          IF text # <<>> /\ def.error # NoSchema
                          THEN Str(text) ELSE Undefined,
                          IF def.error # NoSchema THEN rawJson ELSE Undefined,
                          parsedError),
                 <<>>,
                 IF tryError THEN <<Ev("parse:error", 0)>> ELSE <<>>)

\* A non-2xx branch that fails with a ValidationError when the error schema
\* rejects the body.
nonOkBranchStrict(L, k, def, rawJson) ==
  LET text == L.response.text
      tryError == def.error # NoSchema /\ rawJson.t # "undefined"
      parsed == tryToParse(def.error, rawJson)
  IN  StepResult(L, "done",
                 IF tryError /\ ~parsed.ok
                 THEN ValidationError("Response validation failed", k, L.url,
                                      "response", parsed.issues)
                 ELSE ApiError(L.response.status, k, L.url,
                               IF text # <<>> THEN Str(text) ELSE Undefined,
                               rawJson,
                               IF tryError THEN parsed.value ELSE Undefined),
                 <<>>,
                 IF tryError THEN <<Ev("parse:error", 0)>> ELSE <<>>)

\* A non-2xx branch that dispatches the request again.
nonOkBranchRetrying(L, k, def, rawJson) == Dispatch(L, <<>>)

\* The `if (!response.ok)` block: the ApiError the call throws.
nonOkBranch(L, k, def, rawJson) ==
  LET text == L.response.text
      tryError == def.error # NoSchema /\ rawJson.t # "undefined"
      parsedError == IF tryError /\ tryToParse(def.error, rawJson).ok
                     THEN tryToParse(def.error, rawJson).value
                     ELSE Undefined
  IN  StepResult(L, "done",
                 ApiError(L.response.status, k, L.url,
                          IF text # <<>> THEN Str(text) ELSE Undefined,
                          rawJson, parsedError),
                 <<>>,
                 IF tryError THEN <<Ev("parse:error", 0)>> ELSE <<>>)

\* Response validation that returns the decoded body instead of the schema's
\* parsed value.
validateResponseUnparsed(L, k, def, rawJson) ==
  LET input == IF rawJson.t # "undefined" THEN rawJson ELSE Str(L.response.text)
      parsed == tryToParse(def.response, input)
  IN  IF ~parsed.ok
      THEN StepResult(L, "done",
                      ValidationError("Response validation failed", k, L.url,
                                      "response", parsed.issues),
                      <<>>, <<Ev("parse:response", 0)>>)
      ELSE StepResult(L, "done", Returned(input), <<>>,
                      <<Ev("parse:response", 0)>>)

\* Response validation: the value the call returns, or its ValidationError.
validateResponse(L, k, def, rawJson) ==
  LET input == IF rawJson.t # "undefined" THEN rawJson ELSE Str(L.response.text)
      parsed == tryToParse(def.response, input)
  IN  IF ~parsed.ok
      THEN StepResult(L, "done",
                      ValidationError("Response validation failed", k, L.url,
                                      "response", parsed.issues),
                      <<>>, <<Ev("parse:response", 0)>>)
      ELSE StepResult(L, "done", Returned(parsed.value), <<>>,
                      <<Ev("parse:response", 0)>>)

\* From the body text's arrival to the end: classification, then the non-2xx
\* branch or response validation.
DoAfterText(L, k) ==
  LET def == getEndpoint(contract, k).def
      rawJson == rawJsonOf(L.response)
      ev1 == IF isLikelyJson(L.response) THEN <<Ev("decodeJson", 0)>> ELSE <<>>
      r == IF ~IsOk(L.response)
           THEN nonOkBranch(L, k, def, rawJson)
           ELSE validateResponse(L, k, def, rawJson)
  IN  [r EXCEPT !.ev = ev1 \o @]

\* -------------------------------------------------------------------------
\* The inputs: what callers pass and what collaborators answer
\* -------------------------------------------------------------------------

AuthField(kind, fn, token) == [kind |-> kind, fn |-> fn, token |-> token]

AuthUndefined == AuthField("undefined", FALSE, <<>>)

\* auth: true, the "use default" sentinel.
AuthTrue == AuthField("true", FALSE, <<>>)

CallArgs(params, query, body, headers, auth, signal, init) ==
  [params |-> params, query |-> query, body |-> body, headers |-> headers,
   auth |-> auth, signal |-> signal, init |-> init]

NoArgs == CallArgs(Undefined, Undefined, Undefined, Undefined, AuthUndefined, "", NoInit)

ParamsGood == Obj(<<Entry(NameId, Str(<<"1">>))>>)

\* An id that needs encoding, and a key the schema does not know.
ParamsEnc == Obj(<<Entry(NameId, Str(<<"a"," ","b">>)), Entry(<<"x">>, Str(<<"9">>))>>)

ParamsNoId == Obj(<<>>)

ParamsBad == Str(<<"b","a","d">>)

QueryGood == Obj(<<Entry(NameQ, Str(<<"x">>))>>)

QueryBad == Obj(<<>>)

BodyGood == Obj(<<Entry(NameN, Str(<<"x">>))>>)

BodyBad == Undefined

HeadersGood == Obj(<<Entry("X-A", Str(<<"1">>))>>)

HeadersAuth == Obj(<<Entry("Authorization", Str(<<"c","a","l","l","e","r">>))>>)

HeadersBad == Str(<<"b","a","d">>)

HeadersCT == Obj(<<Entry("Content-Type", Str(<<"x","/","y">>))>>)

HeadersLowerCT == Obj(<<Entry("content-type", Str(<<"x","/","y">>))>>)

BodyString == Str(<<"x">>)

InitNative == ArgsInit({"native"}, <<>>, EmptyMap, Undefined, "", "no-store")

InitHeaders == ArgsInit({"headers"}, <<>>, "X-Init" :> <<"1">>, Undefined, "", "")

ItemJson == <<"{","a","}">>

ErrJson == <<"{","e","}">>

ResponseItem == Response(200, "application/json", ItemJson)

ResponseErr == Response(404, "application/json", ErrJson)

\* The inputs of the request side: every key, every argument shape, two
\* responses.
RequestInputs ==
  [keys |-> DOMAIN Contract \cup {KeyNone, KeyJunk},
   params |-> {ParamsGood, ParamsEnc, ParamsNoId, ParamsBad},
   query |-> {QueryGood, QueryBad},
   body |-> {BodyGood, BodyBad},
   headers |-> {HeadersGood, HeadersAuth, HeadersBad},
   auth |-> {AuthUndefined, AuthTrue, AuthField("bearer", FALSE, <<"O">>),
             AuthField("bearer", TRUE, <<>>), AuthField("cookie", FALSE, <<>>),
             AuthField("headers", TRUE, <<>>)},
   signal |-> {"signal"},
   init |-> {NoInit, InitNative, InitHeaders},
   tokens |-> {<<>>, <<"T">>},
   supplied |-> {NoAnswer, HeadersAnswer("X-Key" :> <<"k">>)},
   before |-> {"nothing", "add", "own", "throw"},
   responses |-> {ResponseItem, ResponseErr},
   replaced |-> {ResponseErr}]

\* The inputs of the response side: well-formed calls, and every kind of
\* response: 2xx and not, empty, JSON by header, JSON by its first character,
\* JSON by neither, text the decoder rejects.
ResponseInputs ==
  [keys |-> {KeyPost, KeyList, KeyRaw},
   params |-> {ParamsGood},
   query |-> {QueryGood},
   body |-> {BodyGood},
   headers |-> {HeadersGood},
   auth |-> {AuthTrue},
   signal |-> {"signal"},
   init |-> {NoInit},
   tokens |-> {<<"T">>},
   supplied |-> {NoAnswer},
   before |-> {"nothing", "throw"},
   responses |->
     {Response(st, b[1], b[2]) :
        st \in {200, 204, 404},
        b \in {<<"application/json", ItemJson>>, <<"application/json", ErrJson>>,
               <<"", ItemJson>>, <<"text/plain", <<" ","[","]">>>>,
               <<"application/json", <<"o","k">>>>, <<"", <<"{","x">>>>,
               <<"", <<"o","k">>>>, <<"", <<>>>>, <<"application/json", <<>>>>,
               <<"application/json; charset=utf-8", <<"1">>>>}},
   replaced |-> {ResponseItem, ResponseErr}]

\* The inputs of the hook chains: well-formed, valid calls of an
\* auth-required and of a public endpoint, every answer of a hook, a 2xx and
\* a non-2xx response from the transport and from a replacing hook.
HookInputs ==
  [keys |-> {KeyPost, KeyList},
   params |-> {ParamsGood},
   query |-> {QueryGood},
   body |-> {BodyGood},
   headers |-> {HeadersGood},
   auth |-> {AuthTrue},
   signal |-> {"signal"},
   init |-> {NoInit},
   tokens |-> {<<"T">>},
   supplied |-> {NoAnswer},
   before |-> {"nothing", "add", "own", "throw"},
   responses |-> {ResponseItem, ResponseErr},
   replaced |-> {ResponseItem, ResponseErr}]

\* The inputs of body serialisation: endpoints of every effective content
\* type, a body that is an object, a string or left out, headers with and
\* without a content type of the caller's.
BodyInputs ==
  [keys |-> {KeyPut, KeyList, KeyText, KeyQuiet, KeyJson},
   params |-> {ParamsGood},
   query |-> {QueryGood},
   body |-> {BodyGood, BodyString, Undefined},
   headers |-> {HeadersGood, HeadersCT, HeadersLowerCT},
   auth |-> {AuthTrue},
   signal |-> {"signal"},
   init |-> {NoInit},
   tokens |-> {<<"T">>},
   supplied |-> {NoAnswer},
   before |-> {"nothing", "add"},
   responses |-> {ResponseItem},
   replaced |-> {ResponseErr}]

NameSpaced == <<"a"," ","b">>

\* The flat query objects of at most MaxEntries entries: a key that needs
\* encoding among the keys; scalars, null, undefined, an empty array and an
\* array of two items among the values.
QueryObjects ==
  LET entries == {Entry(k, v) :
                    k \in {NameQ, NameTag, NameSpaced},
                    v \in {Str(<<"x">>), Str(NameSpaced), Null, Undefined,
                           Arr(<<>>), Arr(<<Str(<<"x">>), Num(<<"0">>)>>)}}
  IN  {Obj(f) : f \in {g \in UNION {[1..n -> entries] : n \in 0..MaxEntries} :
                         \A i, j \in DOMAIN g : g[i].n = g[j].n => i = j}}

\* The inputs of query encoding: every flat query object, on an endpoint that
\* takes any and on one that takes {q, tag} only.
QueryInputs ==
  [keys |-> {KeyFind, KeyList},
   params |-> {ParamsGood},
   query |-> QueryObjects,
   body |-> {BodyGood},
   headers |-> {HeadersGood},
   auth |-> {AuthTrue},
   signal |-> {"signal"},
   init |-> {NoInit},
   tokens |-> {<<"T">>},
   supplied |-> {NoAnswer},
   before |-> {"nothing"},
   responses |-> {ResponseItem},
   replaced |-> {ResponseErr}]

\* An args.init that carries, at runtime, the four fields its type leaves out.
InitOverriding ==
  ArgsInit({"method", "headers", "body", "signal"}, <<"P","U","T">>,
           "X-Init" :> <<"1">>, Str(<<"r","a","w">>), "other", "")

\* The inputs of the descriptor's construction: valid calls of an
\* auth-required endpoint with a body and of a public one without, with every
\* kind of args.init.
InitInputs ==
  [keys |-> {KeyPost, KeyList},
   params |-> {ParamsGood},
   query |-> {QueryGood},
   body |-> {BodyGood},
   headers |-> {HeadersGood},
   auth |-> {AuthTrue},
   signal |-> {"signal", ""},
   init |-> {NoInit, InitNative, InitHeaders, InitOverriding},
   tokens |-> {<<"T">>},
   supplied |-> {NoAnswer},
   before |-> {"nothing", "add"},
   responses |-> {ResponseItem},
   replaced |-> {ResponseErr}]

\* The inputs of two calls in flight together.
ConcurrentInputs ==
  [keys |-> {KeyPost, KeyItem},
   params |-> {ParamsGood, ParamsEnc},
   query |-> {QueryGood},
   body |-> {BodyGood},
   headers |-> {HeadersGood},
   auth |-> {AuthTrue, AuthField("bearer", FALSE, <<"O">>)},
   signal |-> {"signal"},
   init |-> {NoInit},
   tokens |-> {<<"T">>},
   supplied |-> {NoAnswer},
   before |-> {"nothing", "add", "throw"},
   responses |-> {ResponseItem, ResponseErr},
   replaced |-> {ResponseErr}]

\* The argument values a call of key k may pass for one field: a field the
\* endpoint declares no validator for is never read.
FieldValues(E, k, fld) ==
  IF k \in DOMAIN contract /\ contract[k][fld] # NoSchema
  THEN E[fld] ELSE {Undefined}

\* Does a call with these arguments get past the key, the validators and
\* buildPath, so that it reads args.auth, args.signal and args.init?
ReadsRest(k, a) ==
  /\ DoCall(NoLocals, k, a).pc # "done"
  /\ DoAfterBaseUrl(DoCall(NoLocals, k, a).L, k, a).pc # "done"

\* The arguments a call of key k may pass.  The arguments a call never reads
\* are left undefined.
ArgsFor(E, k) ==
  UNION {
    LET a0 == CallArgs(p, q, b, h, AuthUndefined, "", NoInit)
    IN  IF ReadsRest(k, a0)
        THEN {CallArgs(p, q, b, h, au, sg, ini) :
                au \in E.auth, sg \in E.signal, ini \in E.init}
        ELSE {a0} :
    p \in FieldValues(E, k, "params"), q \in FieldValues(E, k, "query"),
    b \in FieldValues(E, k, "body"), h \in FieldValues(E, k, "headers")}

\* What the auth supplier invoked for these arguments may answer.
AuthAnswers(E, a) ==
  LET kind == IF IsOverride(a.auth)
              THEN (IF a.auth.kind = "bearer" /\ ~a.auth.fn THEN "none" ELSE a.auth.kind)
              ELSE options.auth
  IN  CASE kind = "bearer" -> {TokenAnswer(t) : t \in E.tokens}
        [] kind = "headers" -> E.supplied
        [] OTHER -> {NoAnswer}

\* What a beforeRequest hook handed the descriptor d may do: return nothing,
\* return d with a header added, return a descriptor of its own, or throw.
BeforeAnswers(E, d) ==
  {ans \in {NoAnswer,
            InitAnswer([d EXCEPT !.headers = Assign(@, "X-Hook" :> <<"1">>)]),
            InitAnswer(RequestInit(<<"G","E","T">>, EmptyMap, Undefined, "", "")),
            ThrowAnswer("hook failed")} :
     \/ ans.k = "nothing" /\ "nothing" \in E.before
     \/ ans.k = "throw" /\ "throw" \in E.before
     \/ ans.k = "init" /\ ans.d.headers # EmptyMap /\ "add" \in E.before
     \/ ans.k = "init" /\ ans.d.headers = EmptyMap /\ "own" \in E.before}

FetchAnswers(E) ==
  {ResponseAnswer(r) : r \in E.responses} \cup {ThrowAnswer("network down")}

AfterAnswers(E) ==
  {NoAnswer, ThrowAnswer("hook failed")} \cup {ReplaceAnswer(r) : r \in E.replaced}

\* -------------------------------------------------------------------------
\* Actions
\* -------------------------------------------------------------------------

\* The locals of call c live in an invocation of their own (they are `let`
\* and `const` inside call).
\* Locals kept in one place for all invocations on the client, not one per
\* invocation.
FrameShared(c) == "c1"

FrameOf(c) == c

\* The call c takes the step r: its locals, suspension point, outcome,
\* dispatches and invocation log move on, and the answer ans is recorded.
Take(c, r, ans) ==
  /\ frame' = [frame EXCEPT ![FrameOf(c)] = r.L]
  /\ pc' = [pc EXCEPT ![c] = r.pc]
  /\ outcome' = [outcome EXCEPT ![c] = r.out]
  /\ sent' = [sent EXCEPT ![c] = @ \o r.sent]
  /\ log' = [log EXCEPT ![c] = @ \o r.ev]
  /\ answers' = [answers EXCEPT ![c] = Append(@, ans)]
  /\ UNCHANGED <<contract, options, io>>

\* client.call(k, a)
Call(c, E) ==
  /\ pc[c] = "idle"
  /\ \E k \in E.keys : \E a \in ArgsFor(E, k) :
       /\ key' = [key EXCEPT ![c] = k]
       /\ args' = [args EXCEPT ![c] = a]
       /\ Take(c, DoCall(NoLocals, k, a), NoAnswer)

AfterBaseUrl(c) ==
  /\ pc[c] = "baseUrl"
  /\ Take(c, DoAfterBaseUrl(frame[FrameOf(c)], key[c], args[c]), NoAnswer)
  /\ UNCHANGED <<key, args>>

AfterAuth(c, E) ==
  /\ pc[c] = "auth"
  /\ \E ans \in AuthAnswers(E, args[c]) :
       Take(c, DoAfterAuth(frame[FrameOf(c)], key[c], args[c], ans), ans)
  /\ UNCHANGED <<key, args>>

AfterBefore(c, E) ==
  /\ pc[c] = "before"
  /\ \E ans \in BeforeAnswers(E, frame[FrameOf(c)].init) :
       Take(c, DoAfterBefore(frame[FrameOf(c)], ans), ans)
  /\ UNCHANGED <<key, args>>

AfterFetch(c, E) ==
  /\ pc[c] = "fetch"
  /\ \E ans \in FetchAnswers(E) :
       Take(c, DoAfterFetch(frame[FrameOf(c)], ans), ans)
  /\ UNCHANGED <<key, args>>

AfterAfter(c, E) ==
  /\ pc[c] = "after"
  /\ \E ans \in AfterAnswers(E) :
       Take(c, DoAfterAfter(frame[FrameOf(c)], ans), ans)
  /\ UNCHANGED <<key, args>>

AfterText(c) ==
  /\ pc[c] = "text"
  /\ Take(c, DoAfterText(frame[FrameOf(c)], key[c]), NoAnswer)
  /\ UNCHANGED <<key, args>>

\* The caller has seen the outcome; the invocation is gone.
Return(c) ==
  /\ pc[c] = "done"
  /\ pc' = [pc EXCEPT ![c] = "idle"]
  /\ key' = [key EXCEPT ![c] = <<>>]
  /\ args' = [args EXCEPT ![c] = NoArgs]
  /\ frame' = [frame EXCEPT ![FrameOf(c)] = NoLocals]
  /\ outcome' = [outcome EXCEPT ![c] = Pending]
  /\ sent' = [sent EXCEPT ![c] = <<>>]
  /\ log' = [log EXCEPT ![c] = <<>>]
  /\ answers' = [answers EXCEPT ![c] = <<>>]
  /\ UNCHANGED <<contract, options, io>>

\* No helper has been called directly.
NoIo == [fn |-> "", in |-> <<>>, out |-> <<>>]

\* The most slashes in a row at the end of a base URL or the start of a path.
MaxSlashes == 2

Slashes(n) == [i \in 1..n |-> "/"]

\* The (base, path) pairs joinURL is called with: a base that is empty, a
\* host or a host with a path, ending in 0..MaxSlashes slashes, and a path
\* that is empty or has one or two segments, after 0..MaxSlashes slashes.
JoinInputs ==
  {<<b \o Slashes(n), Slashes(m) \o p>> :
     b \in {<<>>, <<"h">>, <<"h","/","a">>}, n \in 0..MaxSlashes,
     p \in {<<>>, <<"i">>, <<"i","/","j">>, <<"i","/">>}, m \in 0..MaxSlashes}

\* joinURL(base, path), called directly (it is exported).
CallJoinURL ==
  /\ \E x \in JoinInputs :
       io' = [fn |-> "joinURL", in |-> x, out |-> joinURL(x[1], x[2])]
  /\ UNCHANGED <<contract, options, pc, key, args, frame, outcome, sent, log, answers>>

\* createClient(contract, o) for some o of O.
InitOn(C, O) ==
  /\ contract = C
  /\ options \in O
  /\ pc = [c \in Calls |-> "idle"]
  /\ key = [c \in Calls |-> <<>>]
  /\ args = [c \in Calls |-> NoArgs]
  /\ frame = [c \in Calls |-> NoLocals]
  /\ outcome = [c \in Calls |-> Pending]
  /\ sent = [c \in Calls |-> <<>>]
  /\ log = [c \in Calls |-> <<>>]
  /\ answers = [c \in Calls |-> <<>>]
  /\ io = NoIo

InitWith(O) == InitOn(Contract, O)

BaseString == BaseUrl("string", <<"h",":","/","/","x","/">>)

BaseFunction == BaseUrl("function", <<"h",":","/","/","y">>)

\* Any default auth strategy, up to MaxHooks hooks on either side, a literal
\* base URL (with a trailing slash) or a resolved one (without).  The base
\* URL goes into the URL alone and the strategy into the headers alone, so
\* the two are varied together, not against each other.
AnyOptions ==
  {ClientOptions(IF au \in {"none", "cookie"} THEN BaseString ELSE BaseFunction,
                 au, nb, na) :
     au \in {"none", "bearer", "cookie", "headers"},
     nb \in 0..MaxHooks, na \in 0..MaxHooks}

\* A bearer client with up to MaxHooks hooks on either side.
BearerOptions ==
  {ClientOptions(BaseFunction, "bearer", nb, na) :
     nb \in 0..MaxHooks, na \in 0..MaxHooks}

\* A bearer client with up to MaxHooks hooks in all.
FewHooksOptions ==
  {ClientOptions(BaseFunction, "bearer", n[1], n[2]) :
     n \in {m \in (0..MaxHooks) \X (0..MaxHooks) : m[1] + m[2] <= MaxHooks}}

\* A bearer client with up to MaxChain hooks on either side.
ChainOptions ==
  {ClientOptions(BaseFunction, "bearer", nb, na) :
     nb \in 0..MaxChain, na \in 0..MaxChain}

Init == InitWith(AnyOptions)

InitResponse == InitWith(BearerOptions)

InitConcurrent == InitWith(FewHooksOptions)

Step(c, E) ==
  \/ Call(c, E)
  \/ AfterBaseUrl(c)
  \/ AfterAuth(c, E)
  \/ AfterBefore(c, E)
  \/ AfterFetch(c, E)
  \/ AfterAfter(c, E)
  \/ AfterText(c)
  \/ Return(c)

\* One call at a time on the client, with the request-side inputs.
Next == Step("c1", RequestInputs)

Spec == Init /\ [][Next]_vars

\* One call at a time on the client, with the response-side inputs.
NextResponse == Step("c1", ResponseInputs)

SpecResponse == InitResponse /\ [][NextResponse]_vars

\* One call at a time on a client with chains of hooks.
SpecHooks == InitWith(ChainOptions) /\ [][Step("c1", HookInputs)]_vars

\* Direct calls of joinURL.
SpecBody == InitOn(BodyContract, BearerOptions) /\ [][Step("c1", BodyInputs)]_vars

SpecQuery == InitOn(QueryContract, BearerOptions) /\ [][Step("c1", QueryInputs)]_vars

SpecInit == InitWith(BearerOptions) /\ [][Step("c1", InitInputs)]_vars

SpecJoin ==
  InitWith({ClientOptions(BaseString, "none", 0, 0)}) /\ [][CallJoinURL]_vars

\* Any number of the calls in flight, interleaved at their awaits.
NextConcurrent == \E c \in Calls : Step(c, ConcurrentInputs)

SpecConcurrent == InitConcurrent /\ [][NextConcurrent]_vars

\* -------------------------------------------------------------------------
\* Properties
\* -------------------------------------------------------------------------

Started(c) == pc[c] # "idle"

Done(c) == pc[c] = "done"

Locals(c) == frame[FrameOf(c)]

\* How many times call c invoked the collaborator e.
Count(c, e) == Cardinality({i \in 1..Len(log[c]) : log[c][i].e = e})

\* The key is a key of the contract of the form "METHOD /path".
WellFormed(c) == key[c] \in DOMAIN contract /\ Contains(key[c], " ")

\* The declared validators that reject the argument call c passed them.
FailingFields(c) ==
  {fld \in {"params", "query", "body", "headers"} :
     /\ contract[key[c]][fld] # NoSchema
     /\ ~Accepts(contract[key[c]][fld], args[c][fld])}

\* C1: a call of an endpoint (a contract entry under a key of the form
\* "METHOD /path") that passes an argument its declared validator rejects
\* never reaches the transport, and ends with a ValidationError of kind
\* "request" whose issues are what a rejecting validator threw.
C1_RequestValidation ==
  \A c \in Calls :
    (Started(c) /\ WellFormed(c) /\ FailingFields(c) # {}) =>
      /\ sent[c] = <<>>
      /\ Count(c, "fetch") = 0
      /\ pc[c] \in {"baseUrl", "done"}
      /\ Done(c) =>
           /\ outcome[c].name = "ValidationError"
           /\ outcome[c].kind = "request"
           /\ \E fld \in FailingFields(c) :
                outcome[c].issues = Issues(contract[key[c]][fld], args[c][fld])

\* A call of the endpoint with all four validators, whose headers alone are
\* rejected, has ended.
C1_Witness ==
  \E c \in Calls :
    /\ Done(c) /\ key[c] = KeyPut
    /\ FailingFields(c) = {"headers"}
    /\ outcome[c].name = "ValidationError"

\* The key is absent from the contract, or has no space in it.
BadKey(c) == key[c] \notin DOMAIN contract \/ ~Contains(key[c], " ")

\* C7: a call whose key is absent from the contract, or has no space between
\* method and path, is over at once with a plain Error, and has invoked
\* nothing: no base URL resolver, validator, auth supplier, hook or transport.
C7_BadKeyFailsFirst ==
  \A c \in Calls :
    (Started(c) /\ BadKey(c)) =>
      /\ Done(c)
      /\ outcome[c].name = "Error"
      /\ log[c] = <<>>
      /\ sent[c] = <<>>

\* A contract key with no space was called on a client that has a base URL
\* resolver and hooks.
C7_Witness ==
  \E c \in Calls :
    /\ Done(c) /\ key[c] = KeyPing
    /\ options.baseUrl.kind = "function" /\ options.nBefore > 0
    /\ outcome[c] = PlainError("Invalid Endpoint key")

\* How far a call has come.
Rank(p) ==
  CASE p = "idle" -> 0 [] p = "baseUrl" -> 1 [] p = "auth" -> 2
    [] p = "before" -> 3 [] p = "fetch" -> 4 [] p = "after" -> 5
    [] p = "text" -> 6 [] OTHER -> 7

\* The call failed in lookup, key parsing, validation, URL building or a
\* beforeRequest hook.
FailedBeforeDispatch(c) ==
  \/ outcome[c].name = "Error"
  \/ outcome[c].name = "ValidationError" /\ outcome[c].kind = "request"
  \/ outcome[c].name = "thrown" /\ log[c][Len(log[c])].e = "before"

C9_AtMostOnce ==
  \A c \in Calls :
    /\ Len(sent[c]) <= 1
    /\ Count(c, "fetch") = Len(sent[c])
    /\ pc[c] \in {"idle", "baseUrl", "auth", "before"} => Len(sent[c]) = 0
    /\ pc[c] \in {"fetch", "after", "text"} => Len(sent[c]) = 1
    /\ Done(c) => (Len(sent[c]) = 1 <=> ~FailedBeforeDispatch(c))

C9_NeverBack ==
  \A c \in Calls :
    \/ pc'[c] = pc[c] /\ Locals(c)' = Locals(c)
    \/ pc[c] = "done" /\ pc'[c] = "idle"
    \/ Rank(pc'[c]) > Rank(pc[c])
    \/ pc'[c] = pc[c] /\ pc[c] \in {"before", "after"} /\ Locals(c).i' > Locals(c).i

\* C9: a call invokes the transport at most once, exactly once when it got
\* through lookup, parsing, validation, URL building, auth, serialisation and
\* the beforeRequest hooks, and whatever the outcome it never goes back to an
\* earlier step.
C9_SingleDispatch == [](C9_AtMostOnce) /\ [][C9_NeverBack]_vars

\* A call through hooks on both sides ended with an ApiError after its one
\* dispatch.
C9_Witness ==
  \E c \in Calls :
    /\ Done(c) /\ outcome[c].name = "ApiError"
    /\ options.nBefore > 0 /\ options.nAfter > 0
    /\ Len(sent[c]) = 1

\* The call is of an auth-required endpoint and its auth headers arrived.
PastAuth(c) ==
  /\ WellFormed(c)
  /\ contract[key[c]].auth = "required"
  /\ Len(answers[c]) >= 3

\* What the auth supplier answered call c.
AuthAnswer(c) == answers[c][3]

BearerOf(token) == <<"B","e","a","r","e","r"," ">> \o token

\* The header map the pipeline built carries an Authorization header only
\* if the validated request headers do, and then theirs.
NoAuthorizationInjected(c) ==
  LET given == SpreadHeaders(Locals(c).headersObj)
  IN  IF "Authorization" \in DOMAIN given
      THEN /\ "Authorization" \in DOMAIN Locals(c).h
           /\ Locals(c).h["Authorization"] = given["Authorization"]
      ELSE "Authorization" \notin DOMAIN Locals(c).h

\* The call uses the client default with a bearer strategy whose supplier
\* answered a non-empty token.
DefaultBearerToken(c) ==
  /\ PastAuth(c) /\ ~(args[c].auth.kind \in {"bearer", "cookie", "headers"})
  /\ options.auth = "bearer" /\ AuthAnswer(c).s # <<>>

\* The call uses the client default, and that is a cookie strategy or a
\* bearer strategy whose supplier answered an empty token.
DefaultNoToken(c) ==
  /\ PastAuth(c) /\ ~(args[c].auth.kind \in {"bearer", "cookie", "headers"})
  /\ \/ options.auth = "cookie"
     \/ options.auth = "bearer" /\ AuthAnswer(c).s = <<>>

\* No beforeRequest hook returned a descriptor to call c.
NoHookReplaced(c) == \A i \in 1..Len(answers[c]) : answers[c][i].k # "init"

OverrideObject(c) == args[c].auth.kind \in {"bearer", "cookie", "headers"}

\* The auth headers of a strategy of the given kind: of the token for
\* bearer, the supplied map for headers, none for cookie.
AuthHeadersOf(kind, token, supplied) ==
  CASE kind = "bearer" /\ token # <<>> -> ("Authorization" :> BearerOf(token))
    [] kind = "headers" -> supplied
    [] OTHER -> EmptyMap

\* The headers call c must have built, Content-Type aside: the validated
\* headers, overlaid with the auth headers of the strategy of the given kind.
BuiltFrom(c, kind, token) ==
  LET supplied == IF AuthAnswer(c).k = "headers" THEN AuthAnswer(c).m ELSE EmptyMap
      want == Assign(SpreadHeaders(Locals(c).headersObj),
                     AuthHeadersOf(kind, token, supplied))
      got == Locals(c).h
  IN  [n \in DOMAIN got \ {"Content-Type"} |-> got[n]]
        = [n \in DOMAIN want \ {"Content-Type"} |-> want[n]]

\* C6: on an auth-required endpoint a call with an override object builds its
\* auth headers from the override alone and never invokes the client
\* default's supplier, also when the override yields no headers; a call with
\* auth: true builds them from the client default.
C6_OverridePrecedence ==
  \A c \in Calls :
    PastAuth(c) =>
      /\ OverrideObject(c) =>
           /\ Count(c, "token") = 0 /\ Count(c, "getHeaders") = 0
           /\ BuiltFrom(c, args[c].auth.kind,
                        IF args[c].auth.fn /\ AuthAnswer(c).k = "token"
                        THEN AuthAnswer(c).s ELSE args[c].auth.token)
      /\ args[c].auth = AuthTrue =>
           /\ Count(c, "override.token") = 0 /\ Count(c, "override.getHeaders") = 0
           /\ Count(c, "token") = (IF options.auth = "bearer" THEN 1 ELSE 0)
           /\ Count(c, "getHeaders") = (IF options.auth = "headers" THEN 1 ELSE 0)
           /\ BuiltFrom(c, options.auth,
                        IF AuthAnswer(c).k = "token" THEN AuthAnswer(c).s ELSE <<>>)

\* A cookie override on a bearer client: no headers from the override, and
\* the client's token supplier was not asked.
C6_Witness ==
  \E c \in Calls :
    /\ PastAuth(c) /\ args[c].auth.kind = "cookie" /\ options.auth = "bearer"
    /\ Len(sent[c]) = 1
    /\ "Authorization" \notin DOMAIN Locals(c).h

\* The path template has a named segment: a colon before a name character.
HasSegment(t) ==
  \E i \in 1..(Len(t) - 1) : t[i] = ":" /\ t[i + 1] \in NameChars

\* The last n characters of s.
Suffix(s, n) == SubSeq(s, Len(s) - n + 1, Len(s))

\* The arguments' params have no id, or a null or undefined one.
OmitsId(c) == GetProp(args[c].params.f, NameId).t \in {"undefined", "null"}

\* C8: for a key whose template has a named segment, a call whose params hold
\* the key dispatches the path with the URL-encoded value in its place; a
\* call whose params omit it ends with a ValidationError of kind "request"
\* and no dispatch; no dispatched URL has an uninterpolated ":name" in it.
C8_PathInterpolation ==
  \A c \in Calls :
    (Started(c) /\ WellFormed(c) /\ HasSegment(parseKey(key[c]).path)) =>
      /\ \A i \in 1..Len(sent[c]) : ~HasSegment(sent[c][i].url)
      /\ (key[c] = KeyItem /\ args[c].params = ParamsGood /\ sent[c] # <<>>) =>
           Suffix(sent[c][1].url, 4) = <<"/","i","/","1">>
      /\ (key[c] = KeyItem /\ args[c].params = ParamsEnc /\ sent[c] # <<>>) =>
           Suffix(sent[c][1].url, 8) = <<"/","i","/","a","%","2","0","b">>
      /\ (Done(c) /\ OmitsId(c)) =>
           /\ outcome[c].name = "ValidationError"
           /\ outcome[c].kind = "request"
           /\ sent[c] = <<>>

\* The call read the body text of its final response.
ReadBody(c) == Done(c) /\ Count(c, "text") = 1

\* The transport answered call c.
Answered(c) == \E i \in 1..Len(answers[c]) : answers[c][i].k = "response"

\* The response the transport gave call c.
TransportResponse(c) ==
  answers[c][CHOOSE i \in 1..Len(answers[c]) : answers[c][i].k = "response"].r

\* The response the afterResponse hooks left: the last one a hook returned,
\* or the transport's.
FinalResponse(c) ==
  LET given == {i \in 1..Len(answers[c]) : answers[c][i].k \in {"response", "replace"}}
  IN  answers[c][CHOOSE i \in given : \A j \in given : j <= i].r

JsonBody(r) == isLikelyJson(r) /\ decodeJson(r.text).ok

\* C3: on a non-2xx response with a decoded JSON body, an endpoint with an
\* error schema that accepts the body fails with an ApiError whose
\* parsedError is the schema's parsed value; when the schema rejects it the
\* call still fails with an ApiError, without parsedError and with rawJson
\* and rawText.
C3_ParsedError ==
  \A c \in Calls :
    (ReadBody(c) /\ ~IsOk(FinalResponse(c)) /\ JsonBody(FinalResponse(c))
       /\ contract[key[c]].error # NoSchema) =>
      LET schema == contract[key[c]].error
          json == decodeJson(FinalResponse(c).text).value
      IN  /\ outcome[c].name = "ApiError"
          /\ Accepts(schema, json) =>
               outcome[c].parsedError = Parsed(schema, json)
          /\ ~Accepts(schema, json) =>
               /\ outcome[c].parsedError = Undefined
               /\ outcome[c].rawJson = json
               /\ outcome[c].rawText = Str(FinalResponse(c).text)

\* An error body the error schema rejects: an ApiError without parsedError.
C3_Witness ==
  \E c \in Calls :
    /\ ReadBody(c) /\ key[c] = KeyPost
    /\ FinalResponse(c).status = 404 /\ FinalResponse(c).text = ItemJson
    /\ JsonBody(FinalResponse(c))
    /\ outcome[c].name = "ApiError"
    /\ outcome[c].parsedError = Undefined
    /\ outcome[c].rawJson # Undefined

\* What response validation is given: the decoded JSON, or the text.
ResponseInput(r) ==
  IF rawJsonOf(r) # Undefined THEN rawJsonOf(r) ELSE Str(r.text)

\* C4: on a 2xx response the call returns exactly when the response schema
\* accepts the decoded body, and returns the schema's parsed value; otherwise
\* it fails with a ValidationError of kind "response" with the validator's
\* issues. No call returns a value in any other case.
C4_ResponseValidation ==
  \A c \in Calls :
    /\ (ReadBody(c) /\ IsOk(FinalResponse(c))) =>
         LET schema == contract[key[c]].response
             input == ResponseInput(FinalResponse(c))
         IN  IF Accepts(schema, input)
             THEN outcome[c] = Returned(Parsed(schema, input))
             ELSE /\ outcome[c].name = "ValidationError"
                  /\ outcome[c].kind = "response"
                  /\ outcome[c].issues = Issues(schema, input)
    /\ outcome[c].name = "return" =>
         /\ ReadBody(c) /\ IsOk(FinalResponse(c))
         /\ Accepts(contract[key[c]].response, ResponseInput(FinalResponse(c)))

\* A 200 whose JSON the schema accepts and narrows: the call returned the
\* parsed value, which is not the decoded body.
C4_Witness ==
  \E c \in Calls :
    /\ ReadBody(c) /\ key[c] = KeyPost
    /\ FinalResponse(c).status = 200
    /\ outcome[c].name = "return"
    /\ outcome[c] # Returned(ResponseInput(FinalResponse(c)))

\* The step the pipeline takes from the suspension point p when resumed with
\* the answer ans.
StepFrom(p, L, k, a, ans) ==
  CASE p = "idle" -> DoCall(NoLocals, k, a)
    [] p = "baseUrl" -> DoAfterBaseUrl(L, k, a)
    [] p = "auth" -> DoAfterAuth(L, k, a, ans)
    [] p = "before" -> DoAfterBefore(L, ans)
    [] p = "fetch" -> DoAfterFetch(L, ans)
    [] p = "after" -> DoAfterAfter(L, ans)
    [] p = "text" -> DoAfterText(L, k)

RECURSIVE Replay(_, _, _, _, _)
\* The invocation S taken on through the answers ans[n], ans[n+1], ...
Replay(S, k, a, ans, n) ==
  IF n > Len(ans)
  THEN S
  ELSE LET r == StepFrom(S.pc, S.L, k, a, ans[n])
       IN  Replay([L |-> r.L, pc |-> r.pc, out |-> r.out,
                   sent |-> S.sent \o r.sent, ev |-> S.ev \o r.ev],
                  k, a, ans, n + 1)

\* call(k, a) run with nothing else in flight on the client, its
\* collaborators answering ans.
RunAlone(k, a, ans) ==
  Replay(StepResult(NoLocals, "idle", Pending, <<>>, <<>>), k, a, ans, 1)

\* Every call in flight is where it would be had it run alone with the same
\* answers, and two finished calls with the same key, arguments and answers
\* have the same outcome and dispatched the same request.
C10_AsAlone ==
  /\ \A c \in Calls :
       Started(c) =>
         LET alone == RunAlone(key[c], args[c], answers[c])
         IN  /\ pc[c] = alone.pc
             /\ outcome[c] = alone.out
             /\ sent[c] = alone.sent
             /\ log[c] = alone.ev
             /\ Locals(c) = alone.L
  /\ \A c, d \in Calls :
       (Done(c) /\ Done(d) /\ key[c] = key[d] /\ args[c] = args[d]
          /\ answers[c] = answers[d]) =>
         outcome[c] = outcome[d] /\ sent[c] = sent[d]

\* No step of any call changes the contract or the client options.
C10_ReadOnly == contract' = contract /\ options' = options

\* C10: concurrent calls on one client are independent: each behaves as it
\* would alone, calls with identical arguments (and identically answering
\* collaborators) yield identical results, and no call modifies the contract
\* or the client options.
C10_Independent == [](C10_AsAlone) /\ [][C10_ReadOnly]_vars

\* Two calls with different keys finished side by side, both having
\* dispatched, with different outcomes.
C10_Witness ==
  /\ Done("c1") /\ Done("c2")
  /\ key["c1"] = KeyPost /\ key["c2"] = KeyItem
  /\ Len(sent["c1"]) = 1 /\ Len(sent["c2"]) = 1
  /\ outcome["c1"].name = "return" /\ outcome["c2"].name = "ApiError"

\* The last element of a non-empty sequence.
Last(s) == s[Len(s)]

\* The step is the resumption of call c from its dispatch with an exception
\* of the transport.
TransportThrows(c) ==
  /\ pc[c] = "fetch" /\ pc'[c] # "fetch"
  /\ Last(answers'[c]).k = "throw"

\* A transport exception ends the call there and then, with that exception
\* and no further invocation of any collaborator.
C11_EndsWithIt ==
  \A c \in Calls :
    TransportThrows(c) =>
      /\ pc'[c] = "done"
      /\ outcome'[c] = Thrown(Last(answers'[c]).e)
      /\ log'[c] = log[c]
      /\ sent'[c] = sent[c]

\* A finished call whose last invocation was the transport, which threw, has
\* the transport's exception for outcome and has run no afterResponse hook,
\* body read, decoder or response or error validator.
C11_NothingAfter ==
  \A c \in Calls :
    (Done(c) /\ log[c] # <<>> /\ Last(log[c]).e = "fetch"
       /\ Last(answers[c]).k = "throw") =>
      /\ outcome[c] = Thrown(Last(answers[c]).e)
      /\ outcome[c].name \notin {"ApiError", "ValidationError"}
      /\ \A e \in {"after", "text", "decodeJson", "parse:response", "parse:error"} :
           Count(c, e) = 0

\* C11: when the transport raises an exception during dispatch, the call
\* terminates with that same exception, not wrapped in an ApiError or a
\* ValidationError, and no afterResponse hook, body read, classification or
\* schema validation is performed afterwards.
C11_TransportException == [](C11_NothingAfter) /\ [][C11_EndsWithIt]_vars

\* The transport threw on a client with an afterResponse hook registered.
C11_Witness ==
  \E c \in Calls :
    /\ Done(c) /\ options.nAfter > 0 /\ Count(c, "fetch") = 1
    /\ Count(c, "after") = 0
    /\ outcome[c] = Thrown("network down")

\* The place of a request field in the validation order.
FieldRank(fld) ==
  CASE fld = "params" -> 1 [] fld = "query" -> 2 [] fld = "body" -> 3 [] OTHER -> 4

\* The failing field that comes first in the validation order.
FirstFailing(c) ==
  CHOOSE f \in FailingFields(c) :
    \A g \in FailingFields(c) : FieldRank(f) <= FieldRank(g)

\* The invocations of request validators by call c, in the order made.
RequestParses(c) ==
  LET IsParse(e) == e.e \in {"parse:params", "parse:query", "parse:body", "parse:headers"}
  IN  SelectSeq(log[c], IsParse)

\* One invocation of each validator the endpoint of call c declares, in the
\* order params, query, body, headers, up to the field of rank upto.
ParsesUpTo(c, upto) ==
  LET Runs(f) == contract[key[c]][f] # NoSchema /\ FieldRank(f) <= upto
      flds == SelectSeq(<<"params", "query", "body", "headers">>, Runs)
  IN  [i \in 1..Len(flds) |-> Ev("parse:" \o flds[i], 0)]

\* C12: request inputs are validated in the order params, query, body,
\* headers, fields with no declared validator skipped; the call aborts at
\* the first failing field, its ValidationError reports that field's failure
\* only, and the validators of later fields are never run.
C12_ValidationOrder ==
  \A c \in Calls :
    (WellFormed(c) /\ pc[c] \notin {"idle", "baseUrl"}) =>
      IF FailingFields(c) = {}
      THEN RequestParses(c) = ParsesUpTo(c, 4)
      ELSE LET first == FirstFailing(c)
           IN  /\ Done(c)
               /\ outcome[c].name = "ValidationError"
               /\ outcome[c].kind = "request"
               /\ outcome[c].issues = Issues(contract[key[c]][first], args[c][first])
               /\ RequestParses(c) = ParsesUpTo(c, FieldRank(first))

\* Query and headers both rejected: the call reports the query's failure and
\* has run neither the body's validator nor the headers'.
C12_Witness ==
  \E c \in Calls :
    /\ Done(c) /\ key[c] = KeyPut /\ FailingFields(c) = {"query", "headers"}
    /\ outcome[c].issues = Issues("Query", args[c].query)
    /\ Count(c, "parse:params") = 1 /\ Count(c, "parse:query") = 1
    /\ Count(c, "parse:body") = 0 /\ Count(c, "parse:headers") = 0

\* The number of answers call c has when its request descriptor is built:
\* to the call, to the base URL and, on an auth-required endpoint, to the
\* auth supplier.
Preamble(c) == IF contract[key[c]].auth = "required" THEN 3 ELSE 2

\* Call c has built its request descriptor and begun the beforeRequest loop.
Built(c) ==
  WellFormed(c) /\ Count(c, "before") + Count(c, "fetch") >= 1

\* The descriptor the pipeline built for call c, before any hook.
Computed(c) ==
  RunAlone(key[c], args[c], SubSeq(answers[c], 1, Preamble(c))).L.init

\* What beforeRequest hook i answered call c.
BeforeAnswer(c, i) == answers[c][Preamble(c) + i]

\* The descriptor as left by the beforeRequest hooks 1..n: the one the last
\* of them to return a descriptor returned, or the one the pipeline built.
InitLeftBy(c, n) ==
  LET returned == {i \in 1..n : BeforeAnswer(c, i).k = "init"}
  IN  IF returned = {}
      THEN Computed(c)
      ELSE BeforeAnswer(c, CHOOSE i \in returned : \A j \in returned : j <= i).d

\* The invocations by call c of the collaborator e, in the order made.
Invocations(c, e) ==
  LET IsE(x) == x.e = e
  IN  SelectSeq(log[c], IsE)

\* The place in the log of call c of its first invocation of e.
FirstPlace(c, e) == CHOOSE i \in 1..Len(log[c]) :
                      log[c][i].e = e /\ \A j \in 1..(i - 1) : log[c][j].e # e

\* C13: the beforeRequest hooks run one at a time in registration order,
\* each once, all before the transport; hook i is handed the descriptor as
\* left by hooks 1..i-1, a returned descriptor replaces it for the later
\* hooks and the dispatch, and a hook returning nothing leaves it unchanged.
C13_BeforeHooks ==
  \A c \in Calls :
    Built(c) =>
      LET ran == Count(c, "before")
      IN  /\ ran <= options.nBefore
          /\ Invocations(c, "before") = [i \in 1..ran |-> Ev("before", i)]
          /\ pc[c] = "before" =>
               /\ Len(answers[c]) = Preamble(c) + ran - 1
               /\ Locals(c).i = ran
               /\ Locals(c).init = InitLeftBy(c, ran - 1)
               /\ Count(c, "fetch") = 0
          /\ Count(c, "fetch") >= 1 =>
               /\ ran = options.nBefore
               /\ \A i \in 1..ran : BeforeAnswer(c, i).k # "throw"
               /\ \A i \in 1..Len(log[c]) :
                    log[c][i].e = "before" => i < FirstPlace(c, "fetch")
               /\ Len(sent[c]) = 1
               /\ sent[c][1].init = InitLeftBy(c, ran)

\* Two hooks: the first returned a descriptor of its own, the second was
\* handed that one and returned it with a header added, and that is what
\* was dispatched.
C13_Witness ==
  \E c \in Calls :
    /\ Built(c) /\ key[c] = KeyPost /\ options.nBefore = 2
    /\ Len(sent[c]) = 1
    /\ BeforeAnswer(c, 1).k = "init" /\ BeforeAnswer(c, 1).d.headers = EmptyMap
    /\ BeforeAnswer(c, 2).k = "init"
    /\ BeforeAnswer(c, 2).d.headers = ("X-Hook" :> <<"1">>)
    /\ sent[c][1].init = BeforeAnswer(c, 2).d

\* The transport gave call c a response.
GotResponse(c) ==
  /\ Built(c) /\ Count(c, "fetch") = 1
  /\ Len(answers[c]) >= Preamble(c) + options.nBefore + 1
  /\ answers[c][Preamble(c) + options.nBefore + 1].k = "response"

\* What afterResponse hook i answered call c.
AfterAnswer(c, i) == answers[c][Preamble(c) + options.nBefore + 1 + i]

\* The response as left by the afterResponse hooks 1..n: the one the last
\* of them to return a response returned, or the transport's.
ResponseLeftBy(c, n) ==
  LET returned == {i \in 1..n : AfterAnswer(c, i).k = "replace"}
  IN  IF returned = {}
      THEN AfterAnswer(c, 0).r
      ELSE AfterAnswer(c, CHOOSE i \in returned : \A j \in returned : j <= i).r

\* C14: the afterResponse hooks run one at a time in registration order,
\* only after the transport returned; hook i is handed the response as left
\* by hooks 1..i-1 and may replace it; the body is read once, from the
\* response the last hook left, and that response is the one classified.
C14_AfterHooks ==
  \A c \in Calls :
    /\ (Started(c) /\ ~GotResponse(c)) =>
         Count(c, "after") = 0 /\ Count(c, "text") = 0
    /\ GotResponse(c) =>
         LET ran == Count(c, "after")
         IN  /\ ran <= options.nAfter
             /\ Invocations(c, "after") = [i \in 1..ran |-> Ev("after", i)]
             /\ \A i \in 1..Len(log[c]) :
                  log[c][i].e \in {"after", "text"} => FirstPlace(c, "fetch") < i
             /\ pc[c] = "after" =>
                  /\ Locals(c).i = ran
                  /\ Locals(c).response = ResponseLeftBy(c, ran - 1)
                  /\ Count(c, "text") = 0
             /\ Count(c, "text") <= 1
             /\ Count(c, "text") = 1 =>
                  /\ ran = options.nAfter
                  /\ Last(Invocations(c, "after") \o Invocations(c, "text")).e = "text"
                  /\ Locals(c).response = ResponseLeftBy(c, ran)
                  /\ Done(c) =>
                       /\ outcome[c].name = "ApiError" <=> ~IsOk(ResponseLeftBy(c, ran))
                       /\ outcome[c].name = "ApiError" =>
                            /\ outcome[c].status = ResponseLeftBy(c, ran).status
                            /\ ResponseLeftBy(c, ran).text # <<>> =>
                                 outcome[c].rawText = Str(ResponseLeftBy(c, ran).text)
                       /\ outcome[c].name = "return" =>
                            outcome[c].value =
                              Parsed(contract[key[c]].response,
                                     ResponseInput(ResponseLeftBy(c, ran)))

\* The transport answered 404; the first hook replaced that with another
\* 404, the second with a 200, and the call returned the 200's body.
C14_Witness ==
  \E c \in Calls :
    /\ GotResponse(c) /\ Done(c) /\ options.nAfter = 2
    /\ AfterAnswer(c, 0).r = ResponseErr
    /\ AfterAnswer(c, 1) = ReplaceAnswer(ResponseErr)
    /\ AfterAnswer(c, 2) = ReplaceAnswer(ResponseItem)
    /\ Count(c, "text") = 1
    /\ outcome[c].name = "return"

\* The params and the query of call c are such that its URL can be built:
\* each is accepted by its validator, if one is declared, and the path's
\* segment has a value.
UrlDefined(c) ==
  LET def == contract[key[c]]
  IN  /\ "params" \notin FailingFields(c) /\ "query" \notin FailingFields(c)
      /\ def.params # NoSchema => ~OmitsId(c)

\* The URL of call c: the resolved base URL joined with the path template,
\* interpolated with the validated params, and the encoded validated query.
ResolvedUrl(c) ==
  LET def == contract[key[c]]
      template == parseKey(key[c]).path
      paramsObj == IF def.params # NoSchema
                   THEN Parsed(def.params, args[c].params) ELSE Undefined
      queryObj == IF def.query # NoSchema
                  THEN Parsed(def.query, args[c].query) ELSE Undefined
      path == IF Truthy(paramsObj) THEN buildPath(template, paramsObj).path
              ELSE template
      qs == IF Truthy(queryObj) THEN buildQueryString(queryObj) ELSE <<>>
  IN  joinURL(resolveBaseUrl(options.baseUrl), path \o qs)

\* C15: every ValidationError and every ApiError of a call carries the
\* call's endpoint key and the call's resolved URL, the one built from the
\* resolved base URL, the interpolated path and the encoded query, which is
\* or would be handed to the transport.
C15_ErrorsCarryUrl ==
  \A c \in Calls :
    (Done(c) /\ WellFormed(c)
       /\ outcome[c].name \in {"ValidationError", "ApiError"}) =>
      /\ outcome[c].key = key[c]
      /\ UrlDefined(c) => outcome[c].url = ResolvedUrl(c)
      /\ sent[c] # <<>> => outcome[c].url = sent[c][1].url

\* C16: the base URL resolver is invoked only after all declared input
\* validators have run and succeeded, so that a call that fails request
\* validation has not invoked it.
C16_ResolverAfterValidation ==
  \A c \in Calls :
    (Started(c) /\ WellFormed(c) /\ Count(c, "baseUrl") > 0) =>
      /\ FailingFields(c) = {}
      /\ RequestParses(c) = ParsesUpTo(c, 4)
      /\ \A i \in 1..Len(log[c]) :
           log[c][i].e \in {"parse:params", "parse:query", "parse:body", "parse:headers"}
             => i < FirstPlace(c, "baseUrl")

\* The headers a call can get from auth in this model: the bearer header and
\* the one a headers supplier answers.
AuthDerived == {"Authorization", "X-Key"}

\* C17: a call of a public endpoint resolves no auth: neither the client
\* default's supplier nor a per-call override's is invoked, and the
\* dispatched headers hold nothing derived from an auth strategy, whatever
\* the client default and whatever auth value the call passes.
C17_PublicNoAuth ==
  \A c \in Calls :
    (Started(c) /\ WellFormed(c) /\ contract[key[c]].auth = "public") =>
      /\ \A e \in {"token", "getHeaders", "override.token", "override.getHeaders"} :
           Count(c, e) = 0
      /\ pc[c] # "auth"
      /\ Built(c) =>
           [n \in DOMAIN Locals(c).h \ {"Content-Type"} |-> Locals(c).h[n]]
             = SpreadHeaders(Locals(c).headersObj)
      /\ \A i \in 1..Len(sent[c]) :
           DOMAIN sent[c][i].init.headers \cap AuthDerived = {}

\* A public endpoint called with a bearer override whose token is a
\* function, on a client with a headers strategy: dispatched with no header
\* and no supplier invoked.
C17_Witness ==
  \E c \in Calls :
    /\ key[c] = KeyItem /\ options.auth = "headers"
    /\ args[c].auth = AuthField("bearer", TRUE, <<>>)
    /\ Len(sent[c]) = 1 /\ sent[c][1].init.headers = EmptyMap
    /\ Count(c, "override.token") = 0 /\ Count(c, "getHeaders") = 0

RECURSIVE DropTrailingSlashes(_)
\* s without the slashes at its end.
DropTrailingSlashes(s) ==
  IF s # <<>> /\ s[Len(s)] = "/"
  THEN DropTrailingSlashes(SubSeq(s, 1, Len(s) - 1))
  ELSE s

RECURSIVE DropLeadingSlashes(_)
\* s without the slashes at its start.
DropLeadingSlashes(s) ==
  IF s # <<>> /\ s[1] = "/" THEN DropLeadingSlashes(Tail(s)) ELSE s

\* C18: joinURL(base, path) is base and path joined by exactly one slash,
\* for every number of slashes at the end of base and at the start of path
\* (none, one or several), an empty base included.
C18_OneSlash ==
  io.fn = "joinURL" =>
    io.out = DropTrailingSlashes(io.in[1]) \o <<"/">> \o DropLeadingSlashes(io.in[2])

\* joinURL does join with exactly one slash a non-empty base with at most
\* one slash at its end and a path with at most one at its start.
JoinsSimpleInputs ==
  (/\ io.fn = "joinURL" /\ io.in[1] # <<>>
   /\ Len(io.in[1]) - Len(DropTrailingSlashes(io.in[1])) <= 1
   /\ Len(io.in[2]) - Len(DropLeadingSlashes(io.in[2])) <= 1) =>
    io.out = DropTrailingSlashes(io.in[1]) \o <<"/">> \o DropLeadingSlashes(io.in[2])

\* The content type the claim ascribes to an endpoint: the declared one, else
\* json with a body validator, else none.
EffectiveContentType(def) ==
  IF def.contentType # "" THEN def.contentType
  ELSE IF def.body # NoSchema THEN "json" ELSE "none"

\* The header names that are Content-Type to HTTP, which does not tell the
\* case of a header name.
IsContentType(n) == n \in {"Content-Type", "content-type"}

ContentTypeNames(h) == {n \in DOMAIN h : IsContentType(n)}

\* The request the call c dispatched.
Dispatched(c) == sent[c][1].init

\* The call c dispatched a request, and its body was serialised as ct.
Serialised(c, ct) ==
  /\ WellFormed(c) /\ sent[c] # <<>>
  /\ EffectiveContentType(contract[key[c]]) = ct
  /\ frame[c].bodyObj.t # "undefined"

DefaultFor(ct) == IF ct = "json" THEN AppJson ELSE TextPlain

\* The body of the dispatched request of c is as the claim has it.
BodyAsClaimed(c) ==
  LET ct == EffectiveContentType(contract[key[c]])
  IN  /\ Serialised(c, "json") =>
           /\ Dispatched(c).body = encodeJson(frame[c].bodyObj)
           /\ Count(c, "encodeJson") = 1
      /\ Serialised(c, "text") => Dispatched(c).body = Str(ToStr(frame[c].bodyObj))
      /\ (WellFormed(c) /\ sent[c] # <<>> /\ ct = "none") =>
           /\ Dispatched(c).body = Undefined
           /\ Count(c, "encodeJson") = 0

\* The default Content-Type of the dispatched request of c is there exactly
\* when the request headers carried none, `carried` telling which headers
\* count as one.
DefaultAsClaimed(c, carried(_)) ==
  \A ct \in {"json", "text"} :
    Serialised(c, ct) =>
      LET own == SpreadHeaders(frame[c].headersObj)
          had == {n \in DOMAIN own : carried(n)}
          H == Dispatched(c).headers
      IN  IF had = {}
          THEN "Content-Type" \in DOMAIN H /\ H["Content-Type"] = DefaultFor(ct)
          ELSE \A n \in ContentTypeNames(H) : n \in had /\ H[n] = own[n]

\* C19: the effective content type is the declared one, else json with a
\* body validator, else none; with json and a body the dispatched body is the
\* JSON encoder's output, with text its string form; the default Content-Type
\* is set only if the request headers carry no Content-Type header, so the
\* dispatched request never carries two; with none no body is sent.
C19_BodySerialization ==
  \A c \in Calls :
    /\ BodyAsClaimed(c)
    /\ DefaultAsClaimed(c, IsContentType)
    /\ (WellFormed(c) /\ sent[c] # <<>>) =>
         Cardinality(ContentTypeNames(Dispatched(c).headers)) <= 1

\* What does hold of body serialisation: everything the claim says, with
\* "carry a Content-Type header" read as "have a key spelled Content-Type".
SerialisesByExactName ==
  LET Exact(n) == n = "Content-Type"
  IN  \A c \in Calls : BodyAsClaimed(c) /\ DefaultAsClaimed(c, Exact)

\* A request went out with the default Content-Type next to the caller's
\* lower-case one.
TwoContentTypes ==
  \E c \in Calls :
    /\ sent[c] # <<>>
    /\ Cardinality(ContentTypeNames(Dispatched(c).headers)) = 2

\* The response declares a JSON content type, or its trimmed text begins
\* with a brace or a bracket.
LooksLikeJson(r) ==
  \/ IncludesJson(r.ctype)
  \/ StartsWith(Trim(r.text), "{")
  \/ StartsWith(Trim(r.text), "[")

\* The structured body of r when decoding is attempted exactly on
\* `attempted`: the decoder's value, none when it throws.
StructuredBody(r, attempted) ==
  IF attempted /\ decodeJson(r.text).ok THEN decodeJson(r.text).value ELSE Undefined

\* The call c, having read the body of response r, attempted decoding exactly
\* on `attempted`, did not fail for the decoder's sake, and on a 2xx validated
\* the decoded JSON, or the raw text when there was no structured body.
ClassifiedBy(c, r, attempted) ==
  LET body == StructuredBody(r, attempted)
      input == IF body # Undefined THEN body ELSE Str(r.text)
      schema == contract[key[c]].response
  IN  /\ Count(c, "decodeJson") = (IF attempted THEN 1 ELSE 0)
      /\ outcome[c].name \in {"return", "ValidationError", "ApiError"}
      /\ IsOk(r) =>
           /\ Count(c, "parse:response") = 1
           /\ IF Accepts(schema, input)
              THEN outcome[c] = Returned(Parsed(schema, input))
              ELSE /\ outcome[c].name = "ValidationError"
                   /\ outcome[c].kind = "response"
                   /\ outcome[c].issues = Issues(schema, input)
      /\ (~IsOk(r) /\ body = Undefined) =>
           outcome[c].name = "ApiError" /\ outcome[c].rawJson = Undefined

\* C20 as stated: decoding is attempted exactly when the response declares a
\* JSON content type or its trimmed text begins with '{' or '['; a decoder
\* failure never fails the call and leaves no structured body; a 2xx is then
\* validated with the raw text, and with the decoded JSON otherwise.
C20_AsStated ==
  \A c \in Calls :
    ReadBody(c) =>
      ClassifiedBy(c, FinalResponse(c), LooksLikeJson(FinalResponse(c)))

\* C20, amended: decoding is attempted exactly when the text is not empty and
\* the response declares a JSON content type or its trimmed text begins with
\* '{' or '['; the rest as stated.
C20_Classification ==
  \A c \in Calls :
    ReadBody(c) =>
      ClassifiedBy(c, FinalResponse(c),
                   FinalResponse(c).text # <<>> /\ LooksLikeJson(FinalResponse(c)))

\* A 200 that declares JSON and whose text the decoder rejects: decoding was
\* attempted, and the call returned the raw text the schema accepted.
C20_Witness ==
  \E c \in Calls :
    /\ ReadBody(c) /\ key[c] = KeyRaw
    /\ FinalResponse(c) = Response(200, "application/json", <<"o","k">>)
    /\ Count(c, "decodeJson") = 1
    /\ outcome[c] = Returned(Str(<<"o","k">>))

\* A response that declares JSON and has no text: no decoding was attempted.
EmptyJsonNotDecoded ==
  \E c \in Calls :
    /\ ReadBody(c)
    /\ FinalResponse(c).text = <<>> /\ IncludesJson(FinalResponse(c).ctype)
    /\ Count(c, "decodeJson") = 0

\* The query part of a URL: from its first question mark on, empty when it
\* has none.
QueryPart(url) ==
  IF FirstAt(url, "?", 1) = 0 THEN <<>>
  ELSE SubSeq(url, FirstAt(url, "?", 1), Len(url))

\* The pieces of s between the occurrences of ch.
RECURSIVE SplitOn(_, _)
SplitOn(s, ch) ==
  IF FirstAt(s, ch, 1) = 0 THEN <<s>>
  ELSE <<SubSeq(s, 1, FirstAt(s, ch, 1) - 1)>>
       \o SplitOn(SubSeq(s, FirstAt(s, ch, 1) + 1, Len(s)), ch)

\* The characters a query string carries percent-encoded.
Escaped == {" ", "/", ":", "?", "&", "=", "%", "+", ",", "#", "{", "}", "[", "]",
            "!", "~", "'", "(", ")"}

\* What a reader of application/x-www-form-urlencoded makes of s: a plus is a
\* space, a percent sign with two digits the character they stand for.
RECURSIVE FormDecode(_)
FormDecode(s) ==
  IF s = <<>> THEN <<>>
  ELSE IF Head(s) = "+" THEN <<" ">> \o FormDecode(Tail(s))
  ELSE IF Head(s) = "%" /\ Len(s) >= 3
          /\ \E ch \in Escaped : PercentOf(ch) = SubSeq(s, 1, 3)
  THEN <<CHOOSE ch \in Escaped : PercentOf(ch) = SubSeq(s, 1, 3)>>
       \o FormDecode(SubSeq(s, 4, Len(s)))
  ELSE <<Head(s)>> \o FormDecode(Tail(s))

\* The key=value pairs a reader finds in the query string s (without its
\* question mark), in order: [n, v], decoded.
PairsOf(s) ==
  LET pieces == SplitOn(s, "&")
      Pair(p) ==
        IF FirstAt(p, "=", 1) = 0 THEN [n |-> FormDecode(p), v |-> <<>>]
        ELSE [n |-> FormDecode(SubSeq(p, 1, FirstAt(p, "=", 1) - 1)),
              v |-> FormDecode(SubSeq(p, FirstAt(p, "=", 1) + 1, Len(p)))]
  IN  [i \in 1..Len(pieces) |-> Pair(pieces[i])]

\* The pairs the entries f of a flat query object stand for: one per item of
\* an array, none for null and undefined, one for a scalar.
RECURSIVE EntriesPairs(_)
EntriesPairs(f) ==
  IF f = <<>> THEN <<>>
  ELSE (CASE f[1].v.t \in {"null", "undefined"} -> <<>>
          [] f[1].v.t = "array" ->
               [i \in 1..Len(f[1].v.f) |-> [n |-> f[1].n, v |-> ToStr(f[1].v.f[i].v)]]
          [] OTHER -> <<[n |-> f[1].n, v |-> ToStr(f[1].v)]>>)
       \o EntriesPairs(Tail(f))

\* The call c got its query object past the validator as it was, and
\* dispatched.
SentQuery(c) ==
  /\ WellFormed(c) /\ sent[c] # <<>>
  /\ frame[c].queryObj.t = "object"

\* C21: the query string of a flat query object has one key=value pair per
\* item of every array-valued entry, none for a null or undefined entry, one
\* for every scalar with its string form, and no other pair; it is empty,
\* without a question mark, when no pair remains; a call with query {q: 'x'}
\* dispatches a URL whose query part is exactly ?q=x.
C21_EncodeQuery ==
  \A c \in Calls :
    SentQuery(c) =>
      LET qs == QueryPart(sent[c][1].url)
          pairs == EntriesPairs(frame[c].queryObj.f)
      IN  /\ pairs = <<>> => qs = <<>>
          /\ pairs # <<>> =>
               /\ Len(qs) > 1 /\ Head(qs) = "?"
               /\ PairsOf(Tail(qs)) = pairs
          /\ frame[c].queryObj = QueryGood => qs = <<"?","q","=","x">>
          /\ buildQueryString(frame[c].queryObj) = qs

\* A call whose query has an array of two items under a key that needs
\* encoding and a null entry went out with two pairs.
C21_Witness ==
  \E c \in Calls :
    /\ SentQuery(c) /\ key[c] = KeyFind
    /\ args[c].query = Obj(<<Entry(NameSpaced, Arr(<<Str(<<"x">>), Num(<<"0">>)>>)),
                             Entry(NameQ, Null)>>)
    /\ QueryPart(sent[c][1].url) = <<"?","a","+","b","=","x","&","a","+","b","=","0">>

\* The call c stands where its first request descriptor is handed over: to
\* the first beforeRequest hook, or to the transport when there is no hook.
FirstHandedOver(c) ==
  /\ WellFormed(c)
  /\ \/ pc[c] = "before" /\ frame[c].i = 1
     \/ pc[c] = "fetch" /\ options.nBefore = 0

\* The body the pipeline serialises for call c.
SerialisedBody(c) ==
  LET ct == EffectiveContentType(contract[key[c]])
      b == frame[c].bodyObj
  IN  CASE ct = "json" /\ b.t # "undefined" -> encodeJson(b)
        [] ct = "text" /\ b.t # "undefined" -> Str(ToStr(b))
        [] OTHER -> Undefined

\* The method, headers, body and signal of the descriptor of c are the ones
\* the pipeline computed.
FourFieldsComputed(c) ==
  /\ frame[c].init.method = ToUpperCase(SubSeq(key[c], 1, IndexOfSpace(key[c]) - 1))
  /\ frame[c].init.headers = frame[c].h
  /\ frame[c].init.body = SerialisedBody(c)
  /\ frame[c].init.signal = args[c].signal

\* C22: args.init can only add transport-native fields: the method, headers,
\* body and signal of the descriptor handed to the first beforeRequest hook,
\* or to the transport when there is none, are the ones the pipeline
\* computed, whatever fields args.init holds at runtime.
C22_InitOnlyAdds ==
  \A c \in Calls : FirstHandedOver(c) => FourFieldsComputed(c)

\* What does hold: an args.init of its declared type, with none of method,
\* headers, body and signal, leaves the four computed fields as they are and
\* adds its own.
TypedInitOnlyAdds ==
  \A c \in Calls :
    (FirstHandedOver(c)
     /\ args[c].init.has \cap {"method", "headers", "body", "signal"} = {}) =>
      /\ FourFieldsComputed(c)
      /\ "native" \in args[c].init.has => frame[c].init.native = args[c].init.native

\* A descriptor was handed over with the method, headers, body and signal of
\* args.init in place of the computed ones.
AllFourOverridden ==
  \E c \in Calls :
    /\ FirstHandedOver(c) /\ key[c] = KeyPost
    /\ frame[c].init.method = <<"P","U","T">>
    /\ frame[c].init.headers = ("X-Init" :> <<"1">>)
    /\ frame[c].init.body = Str(<<"r","a","w">>)
    /\ frame[c].init.signal = "other"

====
